---- MODULE Spec2Model ----
(***************************************************************************)
(* Model of the inventory app's API worker (functions/api/[[route]].ts),   *)
(* of the tenths-based order computation and the order e-mail of the mail  *)
(* worker and of the Reorder view of the UI (src/ui/App.tsx).              *)
(*                                                                         *)
(* Quantities.  The store keeps PAR and on-hand as REAL values that are    *)
(* multiples of 0.1; the model keeps them as integers counting tenths.     *)
(* Raw request numbers are integers counting hundredths, so that the       *)
(* one-decimal rounding of the code has something to round.                *)
(*                                                                         *)
(* Requests.  Every handler is one action that takes the worker from       *)
(* pc = "idle" to pc = "responded", recording the request (req), the       *)
(* response (resp) and the store as it was when the request arrived (pre). *)
(* Return ends the request and drops these request-local values.  Where    *)
(* the steps of a handler matter (two imports at a time, the order e-mail) *)
(* a handler is several actions and pc is its position.                    *)
(***************************************************************************)
EXTENDS Integers, Sequences, FiniteSets, TLC

VARIABLES db, pc, lastOp, req, resp, pre, view

vars == <<db, pc, lastOp, req, resp, pre, view>>

\* ------------------------------------------------------------------ bounds

\* Largest PAR / total on-hand, in tenths, tried by the order computation.
MaxTenths == 110

\* Longest import batch.
MaxRows == 2

\* Number of products in the catalogs the Reorder view is computed for.
MaxProducts == 2

\* ------------------------------------------------------------ basic values

\* SQL NULL / JS null for an id column.
NULL == 0

\* JS null / undefined for a name.
NoName == "<null>"

None == [k |-> "none"]

Range(f) == {f[x] : x \in DOMAIN f}

Max(a, b) == IF a >= b THEN a ELSE b

\* ------------------------------------------------------------------ strings

\* String.prototype.trim on the strings the model uses: the padded ones lose
\* their padding, a blank string becomes empty, every other string has no
\* surrounding white space and is returned as it is.
Trim(s) ==
  CASE s = "  "    -> ""
    [] s = " S2 "  -> "S2"
    [] s = " N2 "  -> "N2"
    [] s = " A "   -> "A"
    [] s = " M "   -> "M"
    [] s = " V "   -> "V"
    [] s = " s1 "  -> "s1"
    [] OTHER       -> s

\* String.prototype.toLowerCase on the names the Reorder view handles.
toLowerCase(s) ==
  CASE s = "B"             -> "b"
    [] s = "Acme"          -> "acme"
    [] s = "Ink"           -> "ink"
    [] s = "Hardware"      -> "hardware"
    [] s = "Widget"        -> "widget"
    [] s = "No Vendor"     -> "no vendor"
    [] s = "Uncategorized" -> "uncategorized"
    [] OTHER               -> s

\* String.prototype.toUpperCase on the SKUs the model uses: "s1" is the one
\* with lower-case letters.
toUpperCase(s) ==
  CASE s = "s1"   -> "S1"
    [] s = " s1 " -> " S1 "
    [] OTHER      -> s

\* The strings of the Reorder view in ascending UTF-16 code unit order
\* (upper case letters sort before lower case ones).
CodeUnitOrder ==
  << "", "<null>", "Acme", "B", "Hardware", "Ink", "No Vendor", "Uncategorized",
     "Widget", "a", "acme", "b", "beta", "hardware", "ink", "no vendor",
     "uncategorized", "widget" >>

CodeUnitRank(s) == CHOOSE i \in 1..Len(CodeUnitOrder) : CodeUnitOrder[i] = s

\* a < b on JS strings.
StrLess(a, b) == CodeUnitRank(a) < CodeUnitRank(b)

\* a.localeCompare(b); on the lower-case strings above the collation order
\* is the alphabetical one, which for them is the code unit order.
localeCompare(a, b) ==
  IF a = b THEN 0 ELSE IF CodeUnitRank(a) < CodeUnitRank(b) THEN -1 ELSE 1

\* ------------------------------------------------------------------ numbers

\* Math.round(n * 10) for n given in hundredths: the nearest tenth, a half
\* rounded up (Math.round rounds .5 towards +Infinity).
RoundToTenths(h) == (h + 5) \div 10

\* round1(n) of a stored value: the store holds tenths, so n * 10 is whole.
round1(t) == RoundToTenths(t * 10)

\* Math.ceil(x - 1e-9) for x = d/10 with d > 0 a whole number of tenths:
\* x - 1e-9 lies strictly between (d-1)/10 and d/10, so the result is d/10
\* when d is a multiple of 10 and floor(d/10) + 1 otherwise.
CeilMinusEps(d) == IF d % 10 = 0 THEN d \div 10 ELSE (d \div 10) + 1

\* Math.ceil(x / 10) for a whole x.
CeilDiv10(x) == -((-x) \div 10)

\* ToOrder with Math.round in the place of Math.ceil.
ToOrderRounded(par, total_on_hand) ==
  LET p   == Max(0, round1(par))
      t   == Max(0, round1(total_on_hand))
      raw == Max(0, p - t)
  IN  IF raw > 0 THEN (raw + 5) \div 10 ELSE 0

\* to_order of GET /api/reorder.
ToOrder(par, total_on_hand) ==
  LET p   == Max(0, round1(par))
      t   == Max(0, round1(total_on_hand))
      raw == Max(0, p - t)
  IN  IF raw > 0 THEN CeilMinusEps(raw) ELSE 0

calcOrderQtyUnits(parTenths, onHandTenths) ==
  LET neededTenths == parTenths - onHandTenths
  IN  IF neededTenths <= 0 THEN 0 ELSE CeilDiv10(neededTenths)

\* -------------------------------------------------------------------- store

\* The tables of ensureSchema, empty.  locations, material_types, vendors and
\* products are functions from the row id; seq holds the AUTOINCREMENT
\* counters (the largest id a table ever gave out).
EmptyDb ==
  [ locations         |-> <<>>,
    material_types    |-> <<>>,
    vendors           |-> <<>>,
    products          |-> <<>>,
    product_locations |-> {},
    on_hand           |-> <<>>,
    seq               |-> [locations |-> 0, material_types |-> 0, vendors |-> 0, products |-> 0] ]

Init ==
  /\ db = EmptyDb
  /\ pc = "idle"
  /\ lastOp = "none"
  /\ req = None
  /\ resp = None
  /\ pre = None
  /\ view = None

\* The request ends: its locals are gone, the store stays.
Return ==
  /\ pc = "responded"
  /\ pc' = "idle"
  /\ lastOp' = "none"
  /\ req' = None
  /\ resp' = None
  /\ pre' = None
  /\ view' = None
  /\ UNCHANGED db

\* ------------------------------------------------- the order computation

\* One evaluation of the order quantity for a PAR and a total on-hand, by
\* the API worker (to_order) and by the mail worker (calcOrderQtyUnits).
CalcOrder(par, total) ==
  /\ pc = "idle"
  /\ pc' = "responded"
  /\ lastOp' = "calc"
  /\ req' = [par |-> par, total_on_hand |-> total]
  /\ resp' = [to_order |-> ToOrder(par, total),
              qty      |-> calcOrderQtyUnits(par, total)]
  /\ pre' = None
  /\ view' = None
  /\ UNCHANGED db

NextCalc ==
  \/ \E par \in 0..MaxTenths, total \in 0..MaxTenths : CalcOrder(par, total)
  \/ Return

SpecCalc == Init /\ [][NextCalc]_vars

\* C1: for PAR and total on-hand any non-negative multiples of 0.1 the order
\* quantity is 0 when total on-hand >= PAR and otherwise the smallest whole
\* number >= PAR - total on-hand (so at least 1).
SmallestWholeAtLeast(d) == CHOOSE n \in 0..(d + 1) : n * 10 >= d /\ (n - 1) * 10 < d

C1_ToOrderIsCeilOfShortfall ==
  lastOp = "calc" =>
    LET want == IF req.total_on_hand >= req.par THEN 0
                ELSE SmallestWholeAtLeast(req.par - req.total_on_hand)
    IN  /\ resp.to_order = want
        /\ resp.qty = want
        /\ (req.par > req.total_on_hand => resp.to_order >= 1)

\* PAR 10.0 with on-hand 7.8 has been evaluated (shortfall 2.2, order 3).
C1_Witness ==
  /\ lastOp = "calc"
  /\ req = [par |-> 100, total_on_hand |-> 78]
  /\ resp.to_order = 3

\* ------------------------------------------------------------ GET /api/reorder

RECURSIVE SumQty(_, _)
\* SUM(oh.qty) over the on_hand rows whose keys are in S.
SumQty(on_hand, S) ==
  IF S = {} THEN 0
  ELSE LET k == CHOOSE x \in S : TRUE
       IN  on_hand[k] + SumQty(on_hand, S \ {k})

\* COALESCE(SUM(oh.qty), 0) of the LEFT JOIN on_hand for one product.
TotalOnHand(d, pid) ==
  SumQty(d.on_hand, {k \in DOMAIN d.on_hand : k[1] = pid})

\* mt.name of the LEFT JOIN material_types: null when there is no such row.
JoinName(table, id) == IF id \in DOMAIN table THEN table[id] ELSE NoName

\* One element of rowsAll: the selected columns and the computed to_order.
\* The query joins vendors but selects no column of it.
ReorderRow(d, pid) ==
  LET p             == d.products[pid]
      par           == Max(0, round1(p.par))
      total_on_hand == Max(0, round1(TotalOnHand(d, pid)))
  IN  [ product_id         |-> pid,
        sku                |-> p.sku,
        name               |-> p.name,
        material_type_name |-> JoinName(d.material_types, p.material_type_id),
        par                |-> par,
        total_on_hand      |-> total_on_hand,
        to_order           |-> ToOrder(p.par, TotalOnHand(d, pid)) ]

RowsAll(d) == {ReorderRow(d, pid) : pid \in DOMAIN d.products}

\* rowsAll.filter(r => r.to_order >= 0): keeps the rows with nothing to order.
NeedsOrderingOrZero(r) == r.to_order >= 0

\* The filter of the report: only items that need ordering.
NeedsOrdering(r) == r.to_order > 0

\* a ?? b for names.
Coalesce(a, b) == IF a = NoName THEN b ELSE a

\* a || b for strings.
OrElse(a, b) == IF a = "" THEN b ELSE a

\* The comparator without toLowerCase on the product names.
RowCompareCaseSensitive(a, b) ==
  LET am == toLowerCase(Coalesce(a.material_type_name, ""))
      bm == toLowerCase(Coalesce(b.material_type_name, ""))
  IN  IF am # bm THEN (IF StrLess(am, bm) THEN -1 ELSE 1)
      ELSE IF b.to_order # a.to_order THEN b.to_order - a.to_order
      ELSE IF StrLess(a.name, b.name) THEN -1 ELSE 1

\* The comparator of rows.sort: material type, then largest to_order, then
\* name, the strings compared in lower case.  It never returns 0.
RowCompare(a, b) ==
  LET am == toLowerCase(Coalesce(a.material_type_name, ""))
      bm == toLowerCase(Coalesce(b.material_type_name, ""))
  IN  IF am # bm THEN (IF StrLess(am, bm) THEN -1 ELSE 1)
      ELSE IF b.to_order # a.to_order THEN b.to_order - a.to_order
      ELSE IF StrLess(toLowerCase(a.name), toLowerCase(b.name)) THEN -1 ELSE 1

\* All orders of the elements of S.
AllOrders(S) ==
  {s \in [1..Cardinality(S) -> S] : \A i, j \in DOMAIN s : i # j => s[i] # s[j]}

\* The results Array.prototype.sort may give with RowCompare: two rows that
\* the comparator orders the same way from both sides are in that order; two
\* rows it calls "greater" from both sides (equal keys) are in either order.
SortedRows(S) ==
  {s \in AllOrders(S) :
     \A i, j \in DOMAIN s :
        i < j => ~(RowCompare(s[j], s[i]) < 0 /\ ~(RowCompare(s[i], s[j]) < 0))}

\* ------------------------------------------------------ Reorder view (UI)

\* r.f of a JS object: undefined when the object has no such property.
Field(r, f) == IF f \in DOMAIN r THEN r[f] ELSE NoName

RECURSIVE Distinct(_)
\* The keys of a Map filled in the order of s: first appearances, in order.
Distinct(s) ==
  IF s = <<>> THEN <<>>
  ELSE LET front == Distinct(SubSeq(s, 1, Len(s) - 1))
           x     == s[Len(s)]
       IN  IF x \in Range(front) THEN front ELSE Append(front, x)

\* Array.prototype.sort with a consistent comparator: a stable sort.  The
\* first n elements sorted, the next one goes after every element that is
\* not greater than it.
StableSort(s, cmp(_, _)) ==
  LET sorted[n \in 0..Len(s)] ==
        IF n = 0 THEN <<>>
        ELSE LET front == sorted[n - 1]
                 x     == s[n]
                 keep  == {i \in 1..Len(front) :
                             \A j \in i..Len(front) : cmp(front[j], x) > 0}
                 at    == IF keep = {} THEN Len(front) + 1
                          ELSE CHOOSE i \in keep : \A j \in keep : i <= j
             IN  SubSeq(front, 1, at - 1) \o <<x>> \o SubSeq(front, at, Len(front))
  IN  sorted[Len(s)]

VendorKey(r) == OrElse(Trim(Coalesce(Field(r, "vendor_name"), "No Vendor")), "No Vendor")

MaterialKey(r) == OrElse(Trim(Coalesce(Field(r, "material_type_name"), "Uncategorized")), "Uncategorized")

CompareNames(a, b) == localeCompare(toLowerCase(a), toLowerCase(b))

CompareToOrder(a, b) == b.to_order - a.to_order

MapSeq(s, F(_)) == [i \in DOMAIN s |-> F(s[i])]

\* The groups memo of the Reorder component.
Groups(rows) ==
  LET vendorEntries == StableSort(Distinct(MapSeq(rows, VendorKey)), CompareNames)
      MaterialsOf(vendor) ==
        LET mine == SelectSeq(rows, LAMBDA r : VendorKey(r) = vendor)
            materialEntries == StableSort(Distinct(MapSeq(mine, MaterialKey)), CompareNames)
        IN  [i \in DOMAIN materialEntries |->
               [ name |-> materialEntries[i],
                 rows |-> StableSort(SelectSeq(mine, LAMBDA r : MaterialKey(r) = materialEntries[i]),
                                  CompareToOrder) ]]
  IN  [i \in DOMAIN vendorEntries |->
         [ vendor |-> vendorEntries[i], materials |-> MaterialsOf(vendorEntries[i]) ]]

\* The defensive filter of load(): data.filter((r) => r.to_order > 0).
StillNeedsOrdering(r) == r.to_order > 0

\* The Reorder page loads: GET /api/reorder answers with the filtered,
\* sorted rows, load() keeps those with to_order > 0 and the groups memo is
\* computed from them.
ReorderLoad ==
  /\ pc = "idle"
  /\ \E sorted \in SortedRows({r \in RowsAll(db) : NeedsOrdering(r)}) :
       /\ resp' = [status |-> 200, rows |-> sorted]
       /\ view' = Groups(SelectSeq(sorted, StillNeedsOrdering))
  /\ pc' = "responded"
  /\ lastOp' = "reorder"
  /\ req' = None
  /\ pre' = db
  /\ UNCHANGED db

\* ------------------------------------------- catalogs for the Reorder view

SkuOf == << "S1", "S2", "S3", "S4" >>

ProductNames == {"a", "B", "b"}

ParChoices == {0, 12, 25}

\* On-hand tables: nothing counted, or product 1 counted at two locations.
OnHandChoices == { <<>>, (<<1, 1>> :> 5) @@ (<<1, 2>> :> 7) }

\* A catalog as direct entry can build it: two locations, two material
\* types, two vendors and MaxProducts products with distinct SKUs.
ReorderCatalogs ==
  { [ locations         |-> << "Main", "Shop" >>,
      material_types    |-> << "hardware", "Ink" >>,
      vendors           |-> << "beta", "Acme" >>,
      products          |-> [p \in 1..MaxProducts |->
                               [ name             |-> ps[p].name,
                                 sku              |-> SkuOf[p],
                                 material_type_id |-> ps[p].material_type_id,
                                 vendor_id        |-> ps[p].vendor_id,
                                 par              |-> ps[p].par ]],
      product_locations |-> {<<p, l>> : p \in 1..MaxProducts, l \in 1..2},
      on_hand           |-> oh,
      seq               |-> [locations |-> 2, material_types |-> 2, vendors |-> 2,
                             products |-> MaxProducts] ] :
      ps \in [1..MaxProducts ->
                [ name : ProductNames, material_type_id : {NULL, 1, 2},
                  vendor_id : {NULL, 1, 2}, par : ParChoices ]],
      oh \in OnHandChoices }

InitReorder ==
  /\ db \in ReorderCatalogs
  /\ pc = "idle"
  /\ lastOp = "none"
  /\ req = None
  /\ resp = None
  /\ pre = None
  /\ view = None

NextReorder == ReorderLoad \/ Return

SpecReorder == InitReorder /\ [][NextReorder]_vars

\* The rows of the emitted report, whatever group they are in.
ViewRows ==
  {view[i].materials[j].rows[k] :
     <<i, j, k>> \in {t \in (DOMAIN view) \X (1..MaxProducts) \X (1..MaxProducts) :
                        /\ t[2] \in DOMAIN view[t[1]].materials
                        /\ t[3] \in DOMAIN view[t[1]].materials[t[2]].rows}}

\* C2: the report has a row for a product exactly when the product's PAR
\* exceeds its total on-hand, i.e. when its to_order is > 0, and no emitted
\* row has to_order <= 0.
C2_ReportHoldsExactlyTheShortProducts ==
  lastOp = "reorder" =>
    /\ \A i \in DOMAIN resp.rows : resp.rows[i].to_order > 0
    /\ \A r \in ViewRows : r.to_order > 0
    /\ \A pid \in DOMAIN db.products :
         LET short == db.products[pid].par > TotalOnHand(db, pid)
         IN  /\ short <=> \E i \in DOMAIN resp.rows : resp.rows[i].product_id = pid
             /\ short <=> \E r \in ViewRows : r.product_id = pid

\* A report was emitted for a catalog with one product to order and one not.
C2_Witness ==
  /\ lastOp = "reorder"
  /\ Len(resp.rows) = 1
  /\ \E pid \in DOMAIN db.products : db.products[pid].par = 12 /\ TotalOnHand(db, pid) = 12

\* The names the report is to show for a product.
VendorNameOf(d, pid) == Coalesce(JoinName(d.vendors, d.products[pid].vendor_id), "No Vendor")

MaterialNameOf(d, pid) ==
  Coalesce(JoinName(d.material_types, d.products[pid].material_type_id), "Uncategorized")

\* The products listed in vendor group i of the view.
ProductsInGroup(i) ==
  {view[i].materials[j].rows[k].product_id :
     <<j, k>> \in {t \in (1..MaxProducts) \X (1..MaxProducts) :
                     /\ t[1] \in DOMAIN view[i].materials
                     /\ t[2] \in DOMAIN view[i].materials[t[1]].rows}}

\* C3: every emitted row is in the group named after its product's vendor
\* ("No Vendor" without one) and, inside it, in the group named after its
\* material type ("Uncategorized" without one); products with different
\* vendors are never in the same vendor group.
C3_RowsGroupedByVendorThenMaterial ==
  lastOp = "reorder" =>
    /\ \A i \in DOMAIN view : \A j \in DOMAIN view[i].materials :
         \A k \in DOMAIN view[i].materials[j].rows :
            LET pid == view[i].materials[j].rows[k].product_id
            IN  /\ view[i].vendor = VendorNameOf(db, pid)
                /\ view[i].materials[j].name = MaterialNameOf(db, pid)
    /\ \A i \in DOMAIN view : \A p, q \in ProductsInGroup(i) :
         db.products[p].vendor_id = db.products[q].vendor_id

\* Case-insensitive "not after".
NotAfter(a, b) == ~StrLess(toLowerCase(b), toLowerCase(a))

Undefined == [k |-> "undefined", v |-> 0]

EmptyString == [k |-> "empty", v |-> 0]

NotANumber == [k |-> "text", v |-> 0]

Num(h) == [k |-> "num", v |-> h]

\* toNum1: null, undefined and "" give 0, a value that is no finite number
\* gives 0, a number is rounded to one decimal.
toNum1(v) ==
  IF v.k \in {"undefined", "empty"} THEN 0
  ELSE IF v.k = "text" THEN 0
  ELSE RoundToTenths(v.v)

\* INSERT INTO t ... : the new row gets the next AUTOINCREMENT id.
InsertRow(d, t, row) ==
  LET id == d.seq[t] + 1
  IN  [d EXCEPT ![t] = (id :> row) @@ @, !.seq[t] = id]

\* INSERT INTO t (name) without the UNIQUE (name) check.
InsertNameAlways(d, t, name) == InsertRow(d, t, name)

\* INSERT OR IGNORE INTO t (name): nothing happens when the name is taken.
InsertOrIgnoreName(d, t, name) ==
  IF name \in Range(d[t]) THEN d ELSE InsertRow(d, t, name)

RECURSIVE InsertOrIgnoreNames(_, _, _)
\* db.batch of one INSERT OR IGNORE per name, in order.
InsertOrIgnoreNames(d, t, names) ==
  IF names = <<>> THEN d
  ELSE InsertOrIgnoreNames(InsertOrIgnoreName(d, t, Head(names)), t, Tail(names))

\* name -> id map built from SELECT id, name ... WHERE name IN (...): a later
\* row of the result overwrites an earlier one of the same name.
IdOfName(table, name) ==
  LET ids == {id \in DOMAIN table : table[id] = name}
  IN  IF ids = {} THEN NULL ELSE CHOOSE id \in ids : \A other \in ids : other <= id

\* The id of the product with a SKU (sku is UNIQUE), NULL without one.
IdOfSku(products, sku) ==
  LET ids == {id \in DOMAIN products : products[id].sku = sku}
  IN  IF ids = {} THEN NULL ELSE CHOOSE id \in ids : \A other \in ids : other <= id

Err(status, message) == [status |-> status, error |-> message]

\* ------------------------------- POST /api/locations, material-types, vendors

\* The POST handler of a reference table t: the trimmed name is required;
\* the INSERT fails on a name that is taken (name is UNIQUE) and the failure
\* is answered with status 400.
CreateRun(d, t, rawName, required, taken) ==
  LET name == Trim(Coalesce(rawName, ""))
  IN  IF name = "" THEN [db |-> d, resp |-> Err(400, required)]
      ELSE IF name \in Range(d[t]) THEN [db |-> d, resp |-> Err(400, taken)]
      ELSE [ db   |-> InsertRow(d, t, name),
             resp |-> [status |-> 200, id |-> d.seq[t] + 1, name |-> name] ]

Create(op, out, rawName) ==
  /\ pc = "idle"
  /\ db' = out.db
  /\ resp' = out.resp
  /\ pc' = "responded"
  /\ lastOp' = op
  /\ req' = [name |-> rawName]
  /\ pre' = db
  /\ view' = None

CreateLocation(rawName) ==
  Create("create location",
         CreateRun(db, "locations", rawName, "Location name is required",
                   "That location already exists."),
         rawName)

CreateMaterialType(rawName) ==
  Create("create material type",
         CreateRun(db, "material_types", rawName, "Material type name is required",
                   "That material type already exists."),
         rawName)

CreateVendor(rawName) ==
  Create("create vendor",
         CreateRun(db, "vendors", rawName, "Vendor name is required",
                   "That vendor already exists."),
         rawName)

\* ---- POST /api/import, continued

\* The row filter with the name test left out.
HasSku(r) == r.sku # ""

\* .filter((r) => r.sku && r.name)
HasSkuAndName(r) == r.sku # "" /\ r.name # ""

\* One element of normRows before the filter.
NormRow(r) ==
  [ location      |-> Trim(Coalesce(r.location, "")),
    material_type |-> Trim(Coalesce(r.material_type, "")),
    vendor        |-> Trim(Coalesce(r.vendor, "")),
    sku           |-> Trim(Coalesce(r.sku, "")),
    name          |-> Trim(Coalesce(r.name, "")),
    par           |-> r.par,
    on_hand       |-> r.on_hand ]

NormRows(rows) == SelectSeq(MapSeq(rows, NormRow), HasSkuAndName)

\* normRows.map(field).filter(Boolean) without the Set: a name counts once
\* for every row that has it.
NamesSeenWithRepeats(normRows, field) ==
  SelectSeq([i \in DOMAIN normRows |-> normRows[i][field]], LAMBDA n : n # "")

\* Array.from(new Set(normRows.map(field).filter(Boolean)))
NamesSeen(normRows, field) ==
  Distinct(SelectSeq([i \in DOMAIN normRows |-> normRows[i][field]], LAMBDA n : n # ""))

\* The default location always "Main": created whenever the catalog has no
\* location of that name, also when it has other locations.
WithMainCreated(d, locNames) ==
  IF locNames # <<>> THEN [db |-> d, locNames |-> locNames]
  ELSE [db |-> InsertOrIgnoreName(d, "locations", "Main"), locNames |-> << "Main" >>]

\* If no row names a location: the first location by id, "Main" created
\* when there is none.  Gives the store and locNames.
WithDefaultLocation(d, locNames) ==
  IF locNames # <<>> THEN [db |-> d, locNames |-> locNames]
  ELSE IF DOMAIN d.locations = {}
       THEN [db |-> InsertRow(d, "locations", "Main"), locNames |-> << "Main" >>]
       ELSE LET first == CHOOSE id \in DOMAIN d.locations :
                           \A other \in DOMAIN d.locations : id <= other
            IN  [db |-> d, locNames |-> << d.locations[first] >>]

\* INSERT OR REPLACE INTO products: a row with the SKU is deleted (and with it,
\* by ON DELETE CASCADE, its product_locations and on_hand rows) and the new
\* row is inserted under a new id.
ReplaceProduct(d, row) ==
  LET pid  == IdOfSku(d.products, row.sku)
      gone == [d EXCEPT !.products = [id \in DOMAIN @ \ {pid} |-> @[id]],
                        !.product_locations = {pl \in @ : pl[1] # pid},
                        !.on_hand = [k \in {x \in DOMAIN @ : x[1] # pid} |-> @[k]]]
  IN  InsertRow(gone, "products", row)

\* INSERT INTO products ... ON CONFLICT(sku) DO NOTHING
InsertProductIfNew(d, row) ==
  IF IdOfSku(d.products, row.sku) # NULL THEN d ELSE InsertRow(d, "products", row)

\* INSERT INTO products ... ON CONFLICT(sku) DO UPDATE SET name, material_type_id,
\* vendor_id, par = excluded.*
UpsertProduct(d, row) ==
  LET pid == IdOfSku(d.products, row.sku)
  IN  IF pid = NULL THEN InsertRow(d, "products", row)
      ELSE [d EXCEPT !.products[pid] = row]

\* The bound values of one product statement.
ProductRow(d, r) ==
  [ name             |-> r.name,
    sku              |-> r.sku,
    material_type_id |-> IF r.material_type # "" THEN IdOfName(d.material_types, r.material_type)
                         ELSE NULL,
    vendor_id        |-> IF r.vendor # "" THEN IdOfName(d.vendors, r.vendor) ELSE NULL,
    par              |-> toNum1(r.par) ]

\* db.batch(stmts): the statements run in order; Apply(d, x) runs the
\* statement made for x.
RunStatements(d, xs, Apply(_, _)) ==
  LET run[n \in 0..Len(xs)] == IF n = 0 THEN d ELSE Apply(run[n - 1], xs[n])
  IN  run[Len(xs)]

\* INSERT OR IGNORE INTO product_locations (product_id, location_id)
InsertOrIgnoreAssignment(d, pl) == [d EXCEPT !.product_locations = @ \cup {pl}]

\* plStmts for the rows without a location only, each at the first of
\* locNames.
AssignmentPairsUnlocated(d, normRows, locNames) ==
  LET defaultLocId == IdOfName(d.locations, locNames[1])
      pairs == MapSeq(SelectSeq(normRows, LAMBDA r : r.location = ""),
                      LAMBDA r : << IdOfSku(d.products, r.sku), defaultLocId >>)
  IN  SelectSeq(pairs, LAMBDA pl : pl[1] # NULL /\ pl[2] # NULL)

\* The (product, location) pairs of plStmts: each row's location, the first
\* of locNames for a row without one; rows whose product or location id is
\* missing are passed over.
AssignmentPairs(d, normRows, locNames) ==
  LET defaultLocId == IdOfName(d.locations, locNames[1])
      PairOf(r) == << IdOfSku(d.products, r.sku),
                      IF r.location # "" THEN IdOfName(d.locations, r.location)
                      ELSE defaultLocId >>
      pairs == MapSeq(normRows, PairOf)
  IN  SelectSeq(pairs, LAMBDA pl : pl[1] # NULL /\ pl[2] # NULL)

\* INSERT INTO on_hand ... ON CONFLICT(product_id, location_id) DO NOTHING
InsertOnHandIfNew(d, x) ==
  IF x.key \in DOMAIN d.on_hand THEN d
  ELSE [d EXCEPT !.on_hand = (x.key :> x.qty) @@ @]

\* INSERT INTO on_hand ... ON CONFLICT(product_id, location_id) DO UPDATE SET
\* qty = excluded.qty
UpsertOnHand(d, x) == [d EXCEPT !.on_hand = (x.key :> x.qty) @@ @]

\* ohRows that takes no row.
HasOnHandNever(r) == FALSE

\* ohRows: the rows with a location and an on_hand that is not undefined,
\* null or "".
HasOnHand(r) == r.location # "" /\ r.on_hand.k \notin {"undefined", "empty"}

\* The bound values of the on_hand statements.
OnHandStatements(d, normRows) ==
  LET StatementOf(r) ==
        [ key |-> << IdOfSku(d.products, r.sku), IdOfName(d.locations, r.location) >>,
          qty |-> toNum1(r.on_hand) ]
      stmts == MapSeq(SelectSeq(normRows, HasOnHand), StatementOf)
  IN  SelectSeq(stmts, LAMBDA x : x.key[1] # NULL /\ x.key[2] # NULL)

\* await env.DB.batch(productStmts), the statements built with the name maps
\* of the store d.
ProductBatch(d, normRows) ==
  RunStatements(d, MapSeq(normRows, LAMBDA r : ProductRow(d, r)), UpsertProduct)

\* The store after the batches of the reference tables, given the store and
\* locNames as the default location left them.
ReferenceBatches(dflt, normRows) ==
  InsertOrIgnoreNames(
    InsertOrIgnoreNames(
      InsertOrIgnoreNames(dflt.db, "locations", dflt.locNames),
      "material_types", NamesSeen(normRows, "material_type")),
    "vendors", NamesSeen(normRows, "vendor"))

\* The rest of the steps, from the store the products batch left.
StepsFromProducts(dflt, d1, d2, d3, d4, normRows) ==
  LET plStmts == AssignmentPairs(d4, normRows, dflt.locNames)
      d5      == RunStatements(d4, plStmts, InsertOrIgnoreAssignment)
  IN  [ locNames    |-> dflt.locNames,
        mtNames     |-> NamesSeen(normRows, "material_type"),
        vendorNames |-> NamesSeen(normRows, "vendor"),
        plStmts     |-> plStmts,
        ohStmts     |-> OnHandStatements(d5, normRows),
        at0 |-> dflt.db, at1 |-> d1, at2 |-> d2, at3 |-> d3, at4 |-> d4, at5 |-> d5 ]

\* The on_hand batch.
WithOnHandBatch(steps) ==
  [at6 |-> RunStatements(steps.at5, steps.ohStmts, UpsertOnHand)] @@ steps

\* The steps from the store the reference batches left.
StepsFromReferences(dflt, d1, d2, d3, normRows) ==
  WithOnHandBatch(StepsFromProducts(dflt, d1, d2, d3, ProductBatch(d3, normRows), normRows))

\* The steps from the store and locNames the default location left.
StepsFromDefault(dflt, d1, normRows) ==
  LET d2 == InsertOrIgnoreNames(d1, "material_types", NamesSeen(normRows, "material_type"))
  IN  StepsFromReferences(dflt, d1, d2, ReferenceBatches(dflt, normRows), normRows)

\* The steps of the import handler on the accepted rows: the name lists, the
\* statements of each batch and the store after each step.  at0 is the store
\* once the default location is settled, at1 .. at6 the store after the
\* batches of locations, material types, vendors, products, assignments and
\* on-hand.
ImportSteps(d, normRows) ==
  LET dflt == WithDefaultLocation(d, NamesSeen(normRows, "location"))
  IN  StepsFromDefault(dflt, InsertOrIgnoreNames(dflt.db, "locations", dflt.locNames),
                       normRows)

\* The answer of a successful import.
ImportSummary(steps, rows, normRows) ==
  [ db   |-> steps.at6,
    resp |-> [ status               |-> 200,
               ok                   |-> TRUE,
               rows_received        |-> Len(rows),
               rows_imported        |-> Len(normRows),
               locations_seen       |-> Len(steps.locNames),
               material_types_seen  |-> Len(steps.mtNames),
               vendors_seen         |-> Len(steps.vendorNames),
               on_hand_upserts      |-> Len(steps.ohStmts) ] ]

\* The import handler: the store it leaves and its response.  The body's
\* rows are all it reads of the request.
ImportRun(d, rows) ==
  IF rows = <<>> THEN [db |-> d, resp |-> Err(400, "rows[] is required")]
  ELSE IF NormRows(rows) = <<>>
       THEN [db |-> d, resp |-> Err(400, "No valid rows found. Each row needs sku + name.")]
  ELSE ImportSummary(ImportSteps(d, NormRows(rows)), rows, NormRows(rows))

\* The Import button of the settings page with the dedup mode chosen there:
\* POST /api/import.
Import(rows, dedup_mode) ==
  /\ pc = "idle"
  /\ LET out == ImportRun(db, rows)
     IN  db' = out.db /\ resp' = out.resp
  /\ pc' = "responded"
  /\ lastOp' = "import"
  /\ req' = [rows |-> rows, dedup_mode |-> dedup_mode]
  /\ pre' = db
  /\ view' = None

\* The tables the six batches of an import write, in the order of the batches.
BatchTables ==
  << "locations", "material_types", "vendors", "products", "product_locations", "on_hand" >>

\* A batch whose failure leaves the statements it had run in the store.
BatchFailsHalfway(before, after) == after

\* env.DB.batch(stmts) throws: D1 runs a batch as one transaction, so the
\* store stays as it was before the batch (after is the store the batch
\* would have left).
BatchFails(before, after) == before

\* The k-th batch of an import with the steps throws: a batch that has no
\* statement is not run and cannot throw (possible).
FailureAt(steps, normRows, k) ==
  LET at    == << steps.at0, steps.at1, steps.at2, steps.at3, steps.at4, steps.at5,
                  steps.at6 >>
      stmts == << steps.locNames, steps.mtNames, steps.vendorNames, normRows,
                  steps.plStmts, steps.ohStmts >>
  IN  [ possible |-> stmts[k] # <<>>,
        db       |-> BatchFails(at[k], at[k + 1]),
        resp     |-> Err(500, "D1_ERROR") ]

\* The import handler when its k-th batch throws: the batches before it are
\* committed, the handler is left through the catch of onRequest, which
\* answers with status 500 and the error's message.
ImportRunFailing(d, rows, k) ==
  IF NormRows(rows) = <<>> THEN [possible |-> FALSE, db |-> d, resp |-> None]
  ELSE FailureAt(ImportSteps(d, NormRows(rows)), NormRows(rows), k)

\* POST /api/import during which the k-th batch fails.
ImportFailing(rows, dedup_mode, k) ==
  /\ pc = "idle"
  /\ LET out == ImportRunFailing(db, rows, k)
     IN  out.possible /\ db' = out.db /\ resp' = out.resp
  /\ pc' = "responded"
  /\ lastOp' = "import"
  /\ req' = [rows |-> rows, dedup_mode |-> dedup_mode, failing |-> k]
  /\ pre' = db
  /\ view' = None

DedupModes == {"update", "skip"}

\* Rows of at most MaxRows rows taken from a set of rows.
Batches(Rows) == UNION {[1..n -> Rows] : n \in 0..MaxRows}

\* ---------------------------------------------- imports of product records

Row(sku, name, material_type, vendor, par, location, on_hand) ==
  [ sku |-> sku, name |-> name, material_type |-> material_type, vendor |-> vendor,
    par |-> par, location |-> location, on_hand |-> on_hand ]

\* Rows for two SKUs that differ in the product's own fields; rows with a
\* blank SKU or an empty name.  5.54 rounds to 5.5.
ProductRows ==
  { Row(sku, name, f[1], f[2], f[3], "", Undefined) :
      sku \in {"S1", " S2 "}, name \in {"N1", " N2 "},
      f \in { << "", "", Undefined >>, << " M ", "V", Num(554) >> } }
  \cup { Row("  ", "N1", "", "", Undefined, "", Undefined),
         Row("S1", "", " M ", "V", Num(554), "", Undefined) }

Next ==
  \/ \E rows \in Batches(ProductRows), mode \in DedupModes : Import(rows, mode)
  \/ Return

Spec == Init /\ [][Next]_vars

\* ---- what the claims say of an import, stated on the request as received

\* The received row i has a non-empty sku and a non-empty name.
RowAccepted(i) == Trim(req.rows[i].sku) # "" /\ Trim(req.rows[i].name) # ""

AcceptedIndexes == {i \in DOMAIN req.rows : RowAccepted(i)}

AcceptedSkus == {Trim(req.rows[i].sku) : i \in AcceptedIndexes}

\* The last accepted row of the batch for a SKU.
LastRowFor(sku) ==
  LET is == {i \in AcceptedIndexes : Trim(req.rows[i].sku) = sku}
  IN  req.rows[CHOOSE i \in is : \A j \in is : j <= i]

ProductsWithSku(d, sku) == {pid \in DOMAIN d.products : d.products[pid].sku = sku}

\* The name a row gives for a reference, NoName for none.
NameGiven(n) == IF Trim(n) = "" THEN NoName ELSE Trim(n)

\* t tenths is the one-decimal rounding of the raw value v.
IsRoundingOf(t, v) ==
  IF v.k = "num" THEN 10 * t - v.v <= 5 /\ v.v - 10 * t <= 5 ELSE t = 0

ImportDone(mode) == lastOp = "import" /\ resp.status = 200 /\ req.dedup_mode = mode

\* C5: after an import in "update" mode, a SKU that was in the catalog and has
\* accepted rows in the batch still names exactly one product, whose name,
\* material type, vendor and PAR are those of the last accepted row for it.
C5_UpdateModeLastRowWins ==
  ImportDone("update") =>
    \A sku \in AcceptedSkus :
       ProductsWithSku(pre, sku) # {} =>
         /\ Cardinality(ProductsWithSku(db, sku)) = 1
         /\ \A pid \in ProductsWithSku(db, sku) :
              LET p == db.products[pid]
                  r == LastRowFor(sku)
              IN  /\ p.name = Trim(r.name)
                  /\ JoinName(db.material_types, p.material_type_id) = NameGiven(r.material_type)
                  /\ JoinName(db.vendors, p.vendor_id) = NameGiven(r.vendor)
                  /\ IsRoundingOf(p.par, r.par)

\* An "update" import gave two accepted rows, of different name, material
\* type, vendor and PAR, for a SKU that was already in the catalog.
C5_Witness ==
  /\ ImportDone("update")
  /\ Len(req.rows) = 2
  /\ AcceptedIndexes = {1, 2}
  /\ Trim(req.rows[1].sku) = Trim(req.rows[2].sku)
  /\ ProductsWithSku(pre, Trim(req.rows[1].sku)) # {}
  /\ Trim(req.rows[1].name) # Trim(req.rows[2].name)
  /\ req.rows[1].par # req.rows[2].par
  /\ req.rows[1].vendor # req.rows[2].vendor

\* C6: after an import in "skip" mode every product whose SKU existed before
\* the call has the name, material type, vendor and PAR it had; only SKUs that
\* did not exist are inserted.
C6_SkipModeLeavesExistingProducts ==
  ImportDone("skip") =>
    /\ \A pid \in DOMAIN pre.products :
         pid \in DOMAIN db.products /\ db.products[pid] = pre.products[pid]
    /\ \A pid \in DOMAIN db.products \ DOMAIN pre.products :
         ProductsWithSku(pre, db.products[pid].sku) = {}

\* C9 as claimed: an import that received rows is never rejected because rows
\* of it lack sku or name; the rows-accepted count is the number of received
\* rows with both.
C9_NeverRejectedForBadRows ==
  (lastOp = "import" /\ req.rows # <<>>) =>
    /\ resp.status = 200
    /\ resp.rows_imported = Cardinality(AcceptedIndexes)

\* C9 as the code has it: with at least one row that has both sku and name
\* the import succeeds, the rows lacking one are dropped, every other row's
\* product is in the catalog and rows_imported counts the rows with both; a
\* batch in which no row has both is rejected with status 400 and writes
\* nothing.
C9_BadRowsDroppedUnlessAllBad ==
  (lastOp = "import" /\ req.rows # <<>>) =>
    IF AcceptedIndexes # {}
    THEN /\ resp.status = 200
         /\ resp.rows_received = Len(req.rows)
         /\ resp.rows_imported = Cardinality(AcceptedIndexes)
         /\ \A sku \in AcceptedSkus : ProductsWithSku(db, sku) # {}
         /\ \A pid \in DOMAIN db.products :
              db.products[pid].sku # "" /\ db.products[pid].name # ""
    ELSE /\ resp.status = 400
         /\ db = pre

\* An import of one row without a name and one complete row succeeded and
\* counted one accepted row.
C9_Witness ==
  /\ lastOp = "import"
  /\ Len(req.rows) = 2
  /\ Cardinality(AcceptedIndexes) = 1
  /\ \E i \in DOMAIN req.rows : Trim(req.rows[i].sku) # "" /\ Trim(req.rows[i].name) = ""
  /\ resp.status = 200
  /\ resp.rows_imported = 1

\* --------------------------------------- imports of stock at named locations

\* Rows for one SKU that differ in the location and the on-hand value they
\* carry.  1.96 rounds to 2.0 and 0.43 to 0.4.
StockRows ==
  { Row("S1", "N1", "", "", Undefined, location, on_hand) :
      location \in {"", " A ", "B"},
      on_hand \in {Undefined, EmptyString, NotANumber, Num(196), Num(43)} }

NextStock ==
  \/ \E rows \in Batches(StockRows), mode \in DedupModes : Import(rows, mode)
  \/ Return

SpecStock == Init /\ [][NextStock]_vars

\* C7: an import removes no product-location assignment: every assignment
\* of before the import is an assignment after it.
C7_ImportKeepsAssignments ==
  lastOp = "import" => pre.product_locations \subseteq db.product_locations

\* A product assigned to one named location was imported against another one
\* and is assigned to both.
C7_Witness ==
  /\ ImportDone("update")
  /\ \E pl \in pre.product_locations :
       \E i \in AcceptedIndexes :
          /\ Trim(req.rows[i].location) # ""
          /\ Trim(req.rows[i].location) # pre.locations[pl[2]]
          /\ pre.locations[pl[2]] \in {"A", "B"}
          /\ pl[1] \in ProductsWithSku(db, Trim(req.rows[i].sku))
          /\ <<pl[1], IdOfName(db.locations, Trim(req.rows[i].location))>> \in db.product_locations
          /\ pl \in db.product_locations

\* Row i is accepted, names a location and carries an on_hand value.
RowSetsOnHand(i) ==
  /\ RowAccepted(i)
  /\ Trim(req.rows[i].location) # ""
  /\ req.rows[i].on_hand.k \notin {"undefined", "empty"}

\* The rows that set the on-hand of the pair key = <<product id, location id>>.
RowsSetting(key) ==
  {i \in DOMAIN req.rows :
     /\ RowSetsOnHand(i)
     /\ key[1] \in ProductsWithSku(db, Trim(req.rows[i].sku))
     /\ key[2] \in DOMAIN db.locations
     /\ db.locations[key[2]] = Trim(req.rows[i].location)}

\* C8: after an import, in either dedup mode, the on-hand stored for a
\* (product, location) pair that accepted rows with a location and a non-empty
\* on_hand name is the one-decimal rounding of the last such row; every such
\* row has its pair stored; every other pair has the on-hand row, or none,
\* that it had before.
C8_OnHandIsLastRowRounded ==
  (lastOp = "import" /\ resp.status = 200) =>
    /\ \A i \in DOMAIN req.rows :
         RowSetsOnHand(i) => \E key \in DOMAIN db.on_hand : i \in RowsSetting(key)
    /\ \A key \in DOMAIN db.on_hand :
         IF RowsSetting(key) # {}
         THEN LET last == CHOOSE i \in RowsSetting(key) : \A j \in RowsSetting(key) : j <= i
              IN  IsRoundingOf(db.on_hand[key], req.rows[last].on_hand)
         ELSE key \in DOMAIN pre.on_hand /\ db.on_hand[key] = pre.on_hand[key]
    /\ \A key \in DOMAIN pre.on_hand : key \in DOMAIN db.on_hand

\* A "skip" import with two on-hand rows for one pair, 0.43 and then 1.96,
\* over a stored on-hand of 0.4, left 2.0.
C8_Witness ==
  /\ ImportDone("skip")
  /\ \E key \in DOMAIN pre.on_hand :
       /\ pre.on_hand[key] = 4
       /\ RowsSetting(key) = {1, 2}
       /\ req.rows[1].on_hand = Num(43)
       /\ req.rows[2].on_hand = Num(196)
       /\ db.on_hand[key] = 20

\* ------------------------------ imports and direct creates of reference names

\* Rows for one SKU that name, or do not name, a location, a material type
\* and a vendor.
ReferenceRows ==
  { Row("S1", "N1", material_type, vendor, Undefined, location, Undefined) :
      material_type \in {"", " M "}, vendor \in {"", "V"},
      location \in {"", " A ", "Main"} }

NextRefs ==
  \/ \E rows \in Batches(ReferenceRows), mode \in DedupModes : Import(rows, mode)
  \/ \E name \in {"Main", " A ", "  "} : CreateLocation(name)
  \/ \E name \in {" M ", ""} : CreateMaterialType(name)
  \/ \E name \in {"V", "  "} : CreateVendor(name)
  \/ Return

SpecRefs == Init /\ [][NextRefs]_vars

NamesUnique(table) ==
  \A i, j \in DOMAIN table : table[i] = table[j] => i = j

IdsOfName(table, name) == {id \in DOMAIN table : table[id] = name}

\* C10: no two locations, no two material types and no two vendors share a
\* name; an import that names an entity already in the catalog creates none
\* of that name and resolves its rows to the entity that was there: the
\* product of the last row for a SKU refers to the material type and vendor
\* the row names, and is assigned to each location a row for it names.
C10_NamesUniqueAndReused ==
  /\ NamesUnique(db.locations)
  /\ NamesUnique(db.material_types)
  /\ NamesUnique(db.vendors)
  /\ (lastOp = "import" /\ resp.status = 200) =>
       /\ \A t \in {"locations", "material_types", "vendors"} :
            \A id \in DOMAIN pre[t] :
               /\ id \in DOMAIN db[t] /\ db[t][id] = pre[t][id]
               /\ IdsOfName(db[t], pre[t][id]) = {id}
       /\ \A sku \in AcceptedSkus : \A pid \in ProductsWithSku(db, sku) :
            LET r == LastRowFor(sku)
                p == db.products[pid]
            IN  /\ \A id \in IdsOfName(pre.material_types, Trim(r.material_type)) :
                     p.material_type_id = id
                /\ \A id \in IdsOfName(pre.vendors, Trim(r.vendor)) : p.vendor_id = id
       /\ \A i \in AcceptedIndexes : \A pid \in ProductsWithSku(db, Trim(req.rows[i].sku)) :
            \A id \in IdsOfName(pre.locations, Trim(req.rows[i].location)) :
               <<pid, id>> \in db.product_locations

\* An import named a location, a material type and a vendor that direct
\* creates had put in the catalog, and the three tables are as they were.
C10_Witness ==
  /\ lastOp = "import" /\ resp.status = 200
  /\ \E i \in AcceptedIndexes :
       /\ IdsOfName(pre.locations, Trim(req.rows[i].location)) # {}
       /\ IdsOfName(pre.material_types, Trim(req.rows[i].material_type)) # {}
       /\ IdsOfName(pre.vendors, Trim(req.rows[i].vendor)) # {}
  /\ pre.products = <<>>
  /\ db.locations = pre.locations
  /\ db.material_types = pre.material_types
  /\ db.vendors = pre.vendors

\* ---- the default location

\* No accepted row of the import names a location.
NoLocationNamed == \A i \in AcceptedIndexes : Trim(req.rows[i].location) = ""

\* The location with the smallest id of a store that has one.
FirstLocation(d) ==
  CHOOSE id \in DOMAIN d.locations : \A other \in DOMAIN d.locations : id <= other

\* Every product of the batch exists and is assigned to the location lid.
BatchAssignedTo(lid) ==
  \A sku \in AcceptedSkus :
     /\ ProductsWithSku(db, sku) # {}
     /\ \A pid \in ProductsWithSku(db, sku) : <<pid, lid>> \in db.product_locations

\* C11: when no accepted row of an import names a location: with no location
\* in the catalog exactly one location, named "Main", is created and is the
\* default; with a location in the catalog none is created and the first
\* existing one is the default.  Every product of the batch is assigned to
\* the default location.
C11_DefaultLocation ==
  (lastOp = "import" /\ resp.status = 200 /\ NoLocationNamed) =>
     IF DOMAIN pre.locations = {}
     THEN /\ Cardinality(DOMAIN db.locations) = 1
          /\ \A lid \in DOMAIN db.locations :
                db.locations[lid] = "Main" /\ BatchAssignedTo(lid)
     ELSE /\ db.locations = pre.locations
          /\ BatchAssignedTo(FirstLocation(pre))

\* An import without a location into a catalog whose first location is "A"
\* and whose second is "Main": the product is assigned to "A", not to "Main".
C11_Witness ==
  /\ lastOp = "import" /\ resp.status = 200 /\ NoLocationNamed
  /\ Cardinality(DOMAIN pre.locations) = 2
  /\ pre.locations[FirstLocation(pre)] = "A"
  /\ "Main" \in Range(pre.locations)
  /\ pre.products = <<>>
  /\ \A sku \in AcceptedSkus : \A pid \in ProductsWithSku(db, sku) :
        {pl \in db.product_locations : pl[1] = pid} = {<<pid, FirstLocation(pre)>>}

\* The same import into an empty catalog created "Main".
C11_WitnessMain ==
  /\ lastOp = "import" /\ resp.status = 200 /\ NoLocationNamed
  /\ pre.locations = <<>>
  /\ Range(db.locations) = {"Main"}

\* ------------------------------------------------------- the import preview

\* The names of a sequence that a table does not hold.
NamesAbsent(table, names) == SelectSeq(names, LAMBDA n : n \notin Range(table))

\* The preview of an import: the rows are normalised and filtered as by the
\* import, nothing is written, and the answer tells what an import of the
\* rows in the mode would do: the reference names it would create and the
\* numbers of distinct SKUs it would insert, overwrite or leave alone.  The
\* fields are the ones the Preview card of the import page shows.
PreviewRun(d, rows, dedup_mode) ==
  IF rows = <<>> THEN Err(400, "rows[] is required")
  ELSE
  LET normRows == NormRows(rows)
  IN  IF normRows = <<>>
      THEN Err(400, "No valid rows found. Each row needs sku + name.")
      ELSE
      LET locNames == NamesSeen(normRows, "location")
          skus     == {normRows[i].sku : i \in DOMAIN normRows}
          known    == {sku \in skus : IdOfSku(d.products, sku) # NULL}
      IN  [ status                    |-> 200,
            ok                        |-> TRUE,
            dedup_mode                |-> dedup_mode,
            rows_received             |-> Len(rows),
            rows_imported             |-> Len(normRows),
            new_locations             |-> IF locNames = <<>> /\ DOMAIN d.locations = {}
                                          THEN << "Main" >>
                                          ELSE NamesAbsent(d.locations, locNames),
            new_material_types        |-> NamesAbsent(d.material_types,
                                                      NamesSeen(normRows, "material_type")),
            new_vendors               |-> NamesAbsent(d.vendors, NamesSeen(normRows, "vendor")),
            will_insert_products      |-> Cardinality(skus \ known),
            will_update_products      |-> IF dedup_mode = "update" THEN Cardinality(known) ELSE 0,
            will_skip_product_updates |-> IF dedup_mode = "skip" THEN Cardinality(known) ELSE 0 ]

\* The Preview button of the import page: Api.importPreview(clean, dedupMode).
ImportPreview(rows, dedup_mode) ==
  /\ pc = "idle"
  /\ resp' = PreviewRun(db, rows, dedup_mode)
  /\ pc' = "responded"
  /\ lastOp' = "preview"
  /\ req' = [rows |-> rows, dedup_mode |-> dedup_mode]
  /\ pre' = db
  /\ view' = None
  /\ UNCHANGED db

NextPreview ==
  \/ \E rows \in Batches(ProductRows), mode \in DedupModes : ImportPreview(rows, mode)
  \/ \E rows \in Batches(ProductRows), mode \in DedupModes : Import(rows, mode)
  \/ Return

SpecPreview == Init /\ [][NextPreview]_vars

\* The summary r has the field f and its value is n.
Reports(r, f, n) == f \in DOMAIN r /\ r[f] = n

\* The preview of the request of an import, taken of the catalog as it was
\* when the import arrived.
PreviewBefore == PreviewRun(pre, req.rows, req.dedup_mode)

\* C12: a preview writes nothing to the store, and the summary of an import
\* carries the counts a preview of the same rows in the same mode gave of
\* the catalog the import started from: reference entities created per kind,
\* products inserted, updated and skipped.
C12_PreviewWritesNothingAndAgreesWithCommit ==
  /\ lastOp = "preview" => db = pre
  /\ (lastOp = "import" /\ resp.status = 200) =>
       /\ Reports(resp, "locations_seen", Len(PreviewBefore.new_locations))
       /\ Reports(resp, "material_types_seen", Len(PreviewBefore.new_material_types))
       /\ Reports(resp, "vendors_seen", Len(PreviewBefore.new_vendors))
       /\ Reports(resp, "products_inserted", PreviewBefore.will_insert_products)
       /\ Reports(resp, "products_updated", PreviewBefore.will_update_products)
       /\ Reports(resp, "product_updates_skipped", PreviewBefore.will_skip_product_updates)

\* ---- the product counts of the import summary

\* The accepted SKUs of the batch that the catalog held before the import.
KnownSkus == {sku \in AcceptedSkus : ProductsWithSku(pre, sku) # {}}

\* C13: the summary of an import reports the products inserted, updated and
\* skipped, and the three counts partition the distinct accepted SKUs:
\* inserted counts the SKUs the catalog did not hold before the call, updated
\* the ones it held (in "update" mode), skipped the ones it held (in "skip"
\* mode); so re-importing one existing SKU in "update" mode reports
\* products_updated = 1 and products_inserted = 0.
C13_ProductCountsPartitionAcceptedSkus ==
  (lastOp = "import" /\ resp.status = 200) =>
     /\ Reports(resp, "products_inserted", Cardinality(AcceptedSkus \ KnownSkus))
     /\ Reports(resp, "products_updated",
                IF req.dedup_mode = "update" THEN Cardinality(KnownSkus) ELSE 0)
     /\ Reports(resp, "product_updates_skipped",
                IF req.dedup_mode = "skip" THEN Cardinality(KnownSkus) ELSE 0)

\* ---- the reference counts of the import summary

\* The ids a table has now and did not have when the request arrived.
Created(t) == DOMAIN db[t] \ DOMAIN pre[t]

\* The distinct non-empty names the accepted rows carry in a field.
NamesOfBatch(field) == {Trim(req.rows[i][field]) : i \in AcceptedIndexes} \ {""}

\* C14 as claimed: the location, material-type and vendor counts of the
\* summary are the numbers of entities of each kind the import created (0
\* for an import that names only entities of the catalog).
C14_CountsAreEntitiesCreated ==
  (lastOp = "import" /\ resp.status = 200) =>
     /\ Reports(resp, "locations_seen", Cardinality(Created("locations")))
     /\ Reports(resp, "material_types_seen", Cardinality(Created("material_types")))
     /\ Reports(resp, "vendors_seen", Cardinality(Created("vendors")))

\* C14, amended: the location, material-type and vendor counts of the summary
\* are the numbers of distinct non-empty names of each kind among the
\* accepted rows, in the catalog before or not; the location count is 1 when
\* no accepted row names a location (the default location).
C14_CountsAreNamesSeen ==
  (lastOp = "import" /\ resp.status = 200) =>
     /\ Reports(resp, "locations_seen",
                IF NoLocationNamed THEN 1 ELSE Cardinality(NamesOfBatch("location")))
     /\ Reports(resp, "material_types_seen", Cardinality(NamesOfBatch("material_type")))
     /\ Reports(resp, "vendors_seen", Cardinality(NamesOfBatch("vendor")))

\* An import of two rows naming the same location, material type and vendor,
\* all in the catalog already: nothing is created and each count is 1.
C14_Witness ==
  /\ lastOp = "import" /\ resp.status = 200
  /\ Cardinality(AcceptedIndexes) = 2
  /\ \A t \in {"locations", "material_types", "vendors"} : Created(t) = {}
  /\ NamesOfBatch("location") \subseteq Range(pre.locations)
  /\ NamesOfBatch("material_type") \subseteq Range(pre.material_types)
  /\ NamesOfBatch("vendor") \subseteq Range(pre.vendors)
  /\ resp.locations_seen = 1 /\ ~NoLocationNamed
  /\ resp.material_types_seen = 1
  /\ resp.vendors_seen = 1

\* ---------------------------------------------- imports whose batches fail

\* Rows for one SKU that name, or do not name, references and a location and
\* carry, or do not carry, an on-hand value.
FaultRows ==
  { Row("S1", "N1", f[1], f[2], Undefined, location, on_hand) :
      f \in { << "", "" >>, << " M ", "V" >> },
      location \in {"", "A"},
      on_hand \in {Undefined, Num(43)} }

NextFault ==
  \/ \E rows \in Batches(FaultRows) : Import(rows, "update")
  \/ \E rows \in Batches(FaultRows), k \in DOMAIN BatchTables :
        ImportFailing(rows, "update", k)
  \/ Return

SpecFault == Init /\ [][NextFault]_vars

\* The tables as they are when the batches of the import begin: as the
\* request found them, with the location "Main" when the handler has just
\* created it as the default.
AtFirstBatch(t) ==
  IF t = "locations" /\ NoLocationNamed /\ pre.locations = <<>>
  THEN << "Main" >> ELSE pre[t]

MaxIds == 2

\* Math.max(0, round1(Number(v ?? 0))) of a raw body value: undefined and ""
\* give 0, a value that is no number gives NaN and round1 makes it 0.
ClampedRound1(v) ==
  IF v.k = "num" THEN Max(0, RoundToTenths(v.v)) ELSE 0

\* D1 runs a prepared statement only with exactly as many bound values as
\* the statement has placeholders; otherwise it throws.
BindingsMatch(placeholders, bound) == placeholders = bound

\* The rows of a store without the product id: ON DELETE CASCADE takes its
\* product_locations and on_hand rows with it.
WithoutProduct(d, id) ==
  [d EXCEPT !.products = [p \in DOMAIN @ \ {id} |-> @[p]],
            !.product_locations = {pl \in @ : pl[1] # id},
            !.on_hand = [k \in {x \in DOMAIN @ : x[1] # id} |-> @[k]]]

\* The same for a location.
WithoutLocation(d, id) ==
  [d EXCEPT !.locations = [l \in DOMAIN @ \ {id} |-> @[l]],
            !.product_locations = {pl \in @ : pl[2] # id},
            !.on_hand = [k \in {x \in DOMAIN @ : x[2] # id} |-> @[k]]]

\* The foreign keys of a product_locations row are satisfied.
ForeignKeysHold(d, pl) == pl[1] \in DOMAIN d.products /\ pl[2] \in DOMAIN d.locations

\* name, sku, par and location_ids as the product handlers read them.
ProductBody(body) ==
  [ name             |-> Trim(Coalesce(body.name, "")),
    sku              |-> Trim(Coalesce(body.sku, "")),
    material_type_id |-> body.material_type_id,
    vendor_id        |-> body.vendor_id,
    par              |-> ClampedRound1(body.par),
    location_ids     |-> body.location_ids ]

\* The checks both product handlers make of the body; None when it passes.
ProductBodyError(b) ==
  IF b.name = "" THEN Err(400, "Product name is required")
  ELSE IF b.sku = "" THEN Err(400, "Product SKU is required")
  ELSE IF b.location_ids = <<>> THEN Err(400, "Select at least one location for this product")
  ELSE None

\* The columns a product statement of the direct edits sets: they name no
\* vendor_id, so a new row has the column's default and an updated row
\* keeps its value.
ProductColumns(b, vendor_id) ==
  [ name |-> b.name, sku |-> b.sku, material_type_id |-> b.material_type_id,
    vendor_id |-> vendor_id, par |-> b.par ]

\* POST /api/products.  The INSERT has 4 placeholders and is given 5 values
\* (vendor_id is bound but is no column of the statement), so D1 throws and
\* the catch answers "Failed to create product".
CreateProductRun(d, body) ==
  LET b     == ProductBody(body)
      pid   == d.seq.products + 1
      pairs == [i \in DOMAIN b.location_ids |-> << pid, b.location_ids[i] >>]
      d1    == InsertRow(d, "products", ProductColumns(b, NULL))
  IN  IF ProductBodyError(b) # None THEN [db |-> d, resp |-> ProductBodyError(b)]
      ELSE IF ~BindingsMatch(4, 5)
           THEN [db |-> d, resp |-> Err(400, "Failed to create product")]
      ELSE IF IdOfSku(d.products, b.sku) # NULL
           THEN [db |-> d, resp |-> Err(400, "That SKU already exists.")]
      ELSE IF \E i \in DOMAIN pairs : ~ForeignKeysHold(d1, pairs[i])
           THEN [db |-> d1, resp |-> Err(400, "Failed to create product")]
      ELSE [ db   |-> RunStatements(d1, pairs, InsertOrIgnoreAssignment),
             resp |-> [status |-> 200, id |-> pid, location_ids |-> b.location_ids] ]

\* A replace that keeps the assignments the product had.
AddAssignments(d, id, location_ids) ==
  [d EXCEPT !.product_locations =
     @ \cup {<< id, location_ids[i] >> : i \in DOMAIN location_ids}]

\* DELETE FROM product_locations WHERE product_id = id, then one INSERT per
\* location id.
ReplaceAssignments(d, id, location_ids) ==
  [d EXCEPT !.product_locations =
     {pl \in @ : pl[1] # id} \cup {<< id, location_ids[i] >> : i \in DOMAIN location_ids}]

\* PUT /api/products/:id.  The UPDATE has 5 placeholders and is given 6
\* values, so D1 throws before the assignments are touched and the catch
\* answers "Failed to update product".
UpdateProductRun(d, id, body) ==
  LET b     == ProductBody(body)
      taken == IdOfSku(d.products, b.sku) \notin {NULL, id}
      d1    == IF id \in DOMAIN d.products
               THEN [d EXCEPT !.products[id] = ProductColumns(b, @.vendor_id)]
               ELSE d
  IN  IF ProductBodyError(b) # None THEN [db |-> d, resp |-> ProductBodyError(b)]
      ELSE IF ~BindingsMatch(5, 6)
           THEN [db |-> d, resp |-> Err(400, "Failed to update product")]
      ELSE IF id \in DOMAIN d.products /\ taken
           THEN [db |-> d, resp |-> Err(400, "That SKU already exists.")]
      ELSE IF \E i \in DOMAIN b.location_ids : ~ForeignKeysHold(d1, << id, b.location_ids[i] >>)
           THEN [db |-> d1, resp |-> Err(400, "Failed to update product")]
      ELSE [ db   |-> ReplaceAssignments(d1, id, b.location_ids),
             resp |-> [status |-> 200, id |-> id, location_ids |-> b.location_ids] ]

\* PUT /products/:id/locations of the worker's revision that has the
\* assignments as a resource of their own: the DELETE is run by itself, then
\* the plain INSERTs as one batch, which fails as a whole on a location id
\* that is listed twice or is no location, and for a product that is none.
PutProductLocationsRun(d, id, location_ids) ==
  LET gone   == ReplaceAssignments(d, id, <<>>)
      twice  == \E i, j \in DOMAIN location_ids : i # j /\ location_ids[i] = location_ids[j]
      broken == \E i \in DOMAIN location_ids : ~ForeignKeysHold(d, << id, location_ids[i] >>)
  IN  IF id = 0 THEN [db |-> d, resp |-> Err(400, "Invalid")]
      ELSE IF location_ids # <<>> /\ (twice \/ broken)
           THEN [db |-> BatchFails(gone, ReplaceAssignments(d, id, location_ids)),
                 resp |-> Err(500, "D1_ERROR")]
      ELSE [ db   |-> ReplaceAssignments(d, id, location_ids),
             resp |-> [status |-> 200, ok |-> TRUE] ]

\* The product is assigned to the location: SELECT 1 FROM product_locations
\* WHERE product_id = ? AND location_id = ?
AssignedAlways(d, product_id, location_id) == TRUE

Assigned(d, product_id, location_id) == << product_id, location_id >> \in d.product_locations

\* Number(x) of an id of a request body is a finite number.
IsFiniteNumber(x) == x.k = "num"

\* PUT /api/on-hand with body {product_id, location_id, qty}.
PutOnHandRun(d, body) ==
  IF ~IsFiniteNumber(body.product_id) \/ ~IsFiniteNumber(body.location_id)
  THEN [db |-> d, resp |-> Err(400, "product_id and location_id are required")]
  ELSE IF ~Assigned(d, body.product_id.v, body.location_id.v)
       THEN [db |-> d,
             resp |-> Err(400, "This product is not assigned to the selected location")]
  ELSE [ db   |-> UpsertOnHand(d, [ key |-> << body.product_id.v, body.location_id.v >>,
                                    qty |-> ClampedRound1(body.qty) ]),
         resp |-> [status |-> 200, ok |-> TRUE] ]

\* A handler of the direct edits: the request, the store it leaves and its
\* response.
Edit(op, request, out) ==
  /\ pc = "idle"
  /\ db' = out.db
  /\ resp' = out.resp
  /\ pc' = "responded"
  /\ lastOp' = op
  /\ req' = request
  /\ pre' = db
  /\ view' = None

CreateProduct(body) == Edit("create product", [body |-> body], CreateProductRun(db, body))

UpdateProduct(id, body) ==
  Edit("update product", [id |-> id, body |-> body], UpdateProductRun(db, id, body))

PutProductLocations(id, location_ids) ==
  Edit("put product locations", [id |-> id, body |-> [location_ids |-> location_ids]],
       PutProductLocationsRun(db, id, location_ids))

PutOnHand(body) == Edit("put on-hand", [body |-> body], PutOnHandRun(db, body))

\* DELETE /api/products/:id
DeleteProduct(id) ==
  /\ db.seq.products <= MaxIds
  /\ Edit("delete product", [id |-> id],
          [db |-> WithoutProduct(db, id), resp |-> [status |-> 200, ok |-> TRUE]])

\* DELETE /api/locations/:id
DeleteLocation(id) ==
  /\ db.seq.locations <= MaxIds
  /\ Edit("delete location", [id |-> id],
          [db |-> WithoutLocation(db, id), resp |-> [status |-> 200, ok |-> TRUE]])

\* ---------------------------------------------- imports and direct edits

\* Rows for one SKU at the locations A and B, with a PAR and an on-hand
\* value that are absent, negative or positive.  -0.96 rounds to -1.0 and
\* -0.43 to -0.4.
EditRows ==
  { Row("S1", "N1", "", "", par, location, on_hand) :
      par \in {Undefined, Num(-96)},
      location \in {"A", "B"},
      on_hand \in {Undefined, Num(-43), Num(196)} }

\* Bodies of the product handlers.
ProductBodies ==
  { [ name |-> "N2", sku |-> sku, material_type_id |-> NULL, vendor_id |-> NULL,
      par |-> par, location_ids |-> location_ids ] :
      sku \in {"S1", "S3"}, par \in {Num(-96), NotANumber},
      location_ids \in {<<>>, << 1 >>} }

\* Bodies of PUT /api/on-hand.
OnHandBodies ==
  { [ product_id |-> product_id, location_id |-> location_id, qty |-> qty ] :
      product_id \in {Undefined, Num(1)},
      location_id \in {Num(1), Num(2)},
      qty \in {Num(-43), Num(196), NotANumber} }

\* Location lists of a replace: none, one, two, one twice.
LocationLists == { <<>>, << 1 >>, << 2 >>, << 1, 2 >>, << 1, 1 >> }

NextEdits ==
  \/ \E rows \in [1..1 -> EditRows] : Import(rows, "update")
  \/ \E body \in ProductBodies : CreateProduct(body)
  \/ \E id \in 1..2, body \in ProductBodies : UpdateProduct(id, body)
  \/ \E id \in 0..1, location_ids \in LocationLists : PutProductLocations(id, location_ids)
  \/ \E body \in OnHandBodies : PutOnHand(body)
  \/ \E id \in 1..MaxIds : DeleteProduct(id)
  \/ \E id \in 1..MaxIds : DeleteLocation(id)
  \/ Return

SpecEdits == Init /\ [][NextEdits]_vars

\* C16: every stored PAR and every stored on-hand quantity is >= 0 (and a
\* whole number of tenths, which the store of the model holds by
\* construction), whatever imports and direct edits came before.
C16_QuantitiesNeverNegative ==
  /\ \A pid \in DOMAIN db.products : db.products[pid].par >= 0
  /\ \A key \in DOMAIN db.on_hand : db.on_hand[key] >= 0

\* ------------------------------------------------------ the case of a SKU

\* buildRows of the import page that has the dedup mode: SKUs are trimmed
\* and upper-cased, names trimmed, rows without a SKU or a name left out.
buildRows(rows) ==
  SelectSeq([i \in DOMAIN rows |->
               [rows[i] EXCEPT !.sku = toUpperCase(Trim(Coalesce(@, ""))),
                               !.name = Trim(Coalesce(@, ""))]],
            HasSkuAndName)

\* The Import button of that page: nothing is sent when no row is left.
ImportFromPage(rows, dedup_mode) ==
  /\ buildRows(rows) # <<>>
  /\ Import(buildRows(rows), dedup_mode)

\* Rows for the SKU S1 written in upper and in lower case.
SkuRows ==
  { Row(sku, name, "", "", Undefined, "", Undefined) :
      sku \in {"S1", "s1", " s1 "}, name \in {"N1", " N2 "} }

\* Bodies of the product handlers with a SKU in lower case.
SkuBodies ==
  { [ name |-> "N1", sku |-> sku, material_type_id |-> NULL, vendor_id |-> NULL,
      par |-> Undefined, location_ids |-> << 1 >> ] : sku \in {"S1", " s1 "} }

NextSku ==
  \/ \E rows \in Batches(SkuRows), mode \in DedupModes : Import(rows, mode)
  \/ \E rows \in Batches(SkuRows), mode \in DedupModes : ImportFromPage(rows, mode)
  \/ \E body \in SkuBodies : CreateProduct(body)
  \/ \E id \in 1..2, body \in SkuBodies : UpdateProduct(id, body)
  \/ Return

SpecSku == Init /\ [][NextSku]_vars

\* C17: every stored SKU is trimmed and in upper case and no two products
\* have the same SKU, so that SKUs that differ in the case of their letters
\* only are one product.
C17_SkusTrimmedUppercaseUnique ==
  /\ \A pid \in DOMAIN db.products :
        LET sku == db.products[pid].sku
        IN  Trim(sku) = sku /\ toUpperCase(sku) = sku
  /\ \A p, q \in DOMAIN db.products :
        toUpperCase(db.products[p].sku) = toUpperCase(db.products[q].sku) => p = q

\* ---- on-hand rows and assignments

\* C18: the pair of every stored on-hand row is a product-location
\* assignment, whatever imports, on-hand writes, replacements of a product's
\* assignments and deletions came before.
C18_OnHandPairsAreAssigned ==
  \A key \in DOMAIN db.on_hand : key \in db.product_locations

\* C19: PUT /api/on-hand for a pair that is no product-location assignment
\* is answered with an error and leaves the on-hand rows as they were.
C19_UnassignedOnHandWriteRejected ==
  (lastOp = "put on-hand"
     /\ \A pl \in pre.product_locations :
          req.body.product_id # Num(pl[1]) \/ req.body.location_id # Num(pl[2]))
  => (resp.status = 400 /\ resp.error # "" /\ db.on_hand = pre.on_hand)

\* The product 1 has on-hand at location 1, is assigned to location 1 only,
\* and a write of its on-hand at location 2, which exists, was refused.
C19_Witness ==
  /\ lastOp = "put on-hand"
  /\ req.body.product_id = Num(1) /\ req.body.location_id = Num(2)
  /\ 2 \in DOMAIN pre.locations
  /\ << 1, 1 >> \in pre.product_locations
  /\ << 1, 2 >> \notin pre.product_locations
  /\ << 1, 1 >> \in DOMAIN pre.on_hand
  /\ resp.status = 400
  /\ db.on_hand = pre.on_hand

\* C20: after a successful product update or replacement of a product's
\* locations with the list L, the locations the product is assigned to are
\* exactly the ones of L.
C20_ReplaceIsFullReplace ==
  (lastOp \in {"update product", "put product locations"} /\ resp.status = 200) =>
     {pl[2] : pl \in {x \in db.product_locations : x[1] = req.id}}
       = Range(req.body.location_ids)

\* The product 1 was assigned to the locations 1 and 2 and is, after a
\* replacement with the list << 2 >>, assigned to location 2 only.
C20_Witness ==
  /\ lastOp = "put product locations" /\ resp.status = 200
  /\ req.id = 1 /\ req.body.location_ids = << 2 >>
  /\ {<< 1, 1 >>, << 1, 2 >>} \subseteq pre.product_locations
  /\ << 1, 1 >> \notin db.product_locations
  /\ << 1, 2 >> \in db.product_locations

\* ---------------------------------------------------------------- deletions

\* DELETE FROM products: every product goes, and with it, by ON DELETE
\* CASCADE, every product_locations and on_hand row.
WithoutAllProducts(d) ==
  [d EXCEPT !.products = <<>>, !.product_locations = {}, !.on_hand = <<>>]

\* A reference of a product to the row id of a table, after that row is
\* deleted: ON DELETE SET NULL.
SetNullOn(ref, id) == IF ref = id THEN NULL ELSE ref

\* The material type is deleted and the products keep their references.
WithoutMaterialTypeOnly(d, id) ==
  [d EXCEPT !.material_types = [m \in DOMAIN @ \ {id} |-> @[m]]]

\* The rows of a store without the material type id: the products that
\* referred to it have material_type_id NULL.
WithoutMaterialType(d, id) ==
  [d EXCEPT !.material_types = [m \in DOMAIN @ \ {id} |-> @[m]],
            !.products = [p \in DOMAIN @ |->
                            [@[p] EXCEPT !.material_type_id = SetNullOn(@, id)]]]

\* The same for a vendor.
WithoutVendor(d, id) ==
  [d EXCEPT !.vendors = [v \in DOMAIN @ \ {id} |-> @[v]],
            !.products = [p \in DOMAIN @ |->
                            [@[p] EXCEPT !.vendor_id = SetNullOn(@, id)]]]

\* DELETE /api/products, which clears the products when all=1 is given.
ClearProducts(all) ==
  /\ db.seq.products <= MaxIds
  /\ Edit("clear products", [all |-> all],
          IF all # "1"
          THEN [db |-> db,
                resp |-> Err(400, "To clear all products, call DELETE /api/products?all=1")]
          ELSE [db |-> WithoutAllProducts(db), resp |-> [status |-> 200, ok |-> TRUE]])

\* DELETE /api/material-types/:id
DeleteMaterialType(id) ==
  /\ db.seq.material_types <= MaxIds
  /\ Edit("delete material type", [id |-> id],
          [db |-> WithoutMaterialType(db, id), resp |-> [status |-> 200, ok |-> TRUE]])

\* DELETE /api/vendors/:id, which refuses an id that is not positive.
DeleteVendor(id) ==
  /\ db.seq.vendors <= MaxIds
  /\ Edit("delete vendor", [id |-> id],
          IF id <= 0 THEN [db |-> db, resp |-> Err(400, "Invalid vendor id")]
          ELSE [db |-> WithoutVendor(db, id), resp |-> [status |-> 200, ok |-> TRUE]])

\* Rows for two SKUs with or without a material type and a vendor, at the
\* location A, with or without an on-hand count.
DeletionRows ==
  { Row(sku, "N1", f[1], f[2], Undefined, "A", on_hand) :
      sku \in {"S1", "S2"},
      f \in { << "", "" >>, << "M", "V" >> },
      on_hand \in {Undefined, Num(196)} }

NextDeletions ==
  \/ \E rows \in [1..1 -> DeletionRows] : Import(rows, "update")
  \/ \E id \in 1..MaxIds : DeleteProduct(id)
  \/ \E all \in {"", "1"} : ClearProducts(all)
  \/ \E id \in 1..MaxIds : DeleteLocation(id)
  \/ \E id \in 1..MaxIds : DeleteMaterialType(id)
  \/ \E id \in 0..MaxIds : DeleteVendor(id)
  \/ Return

SpecDeletions == Init /\ [][NextDeletions]_vars

\* Every on_hand row, assignment and product reference of the store d points
\* to a row that exists.
ReferencesResolve(d) ==
  /\ \A key \in DOMAIN d.on_hand :
        key[1] \in DOMAIN d.products /\ key[2] \in DOMAIN d.locations
  /\ \A pl \in d.product_locations :
        pl[1] \in DOMAIN d.products /\ pl[2] \in DOMAIN d.locations
  /\ \A pid \in DOMAIN d.products :
        /\ d.products[pid].material_type_id \in {NULL} \cup DOMAIN d.material_types
        /\ d.products[pid].vendor_id \in {NULL} \cup DOMAIN d.vendors

\* The products of the store before the request, the reference ref of those
\* that pointed to the deleted id set to NULL.
ProductsWithNull(ref) ==
  [p \in DOMAIN pre.products |->
     [pre.products[p] EXCEPT ![ref] = IF @ = req.id THEN NULL ELSE @]]

Deleted(op) == lastOp = op /\ resp.status = 200

\* C21: no on-hand row, assignment or product reference ever points to a
\* row that is gone.  Deleting a product, or all of them, removes its
\* on-hand rows and assignments; deleting a location removes the on-hand
\* rows and assignments at it; deleting a material type or a vendor deletes
\* no product and sets the reference to NULL on the products that had it,
\* leaving the other products as they were.
C21_DeletionsKeepReferentialIntegrity ==
  /\ ReferencesResolve(db)
  /\ Deleted("delete product") =>
       /\ req.id \notin DOMAIN db.products
       /\ \A key \in DOMAIN db.on_hand : key[1] # req.id
       /\ \A pl \in db.product_locations : pl[1] # req.id
  /\ Deleted("clear products") =>
       db.products = <<>> /\ db.on_hand = <<>> /\ db.product_locations = {}
  /\ Deleted("delete location") =>
       /\ req.id \notin DOMAIN db.locations
       /\ \A key \in DOMAIN db.on_hand : key[2] # req.id
       /\ \A pl \in db.product_locations : pl[2] # req.id
  /\ Deleted("delete material type") =>
       /\ req.id \notin DOMAIN db.material_types
       /\ db.products = ProductsWithNull("material_type_id")
  /\ Deleted("delete vendor") =>
       /\ req.id \notin DOMAIN db.vendors
       /\ db.products = ProductsWithNull("vendor_id")

\* The material type 1 was deleted while product 1 referred to it and had an
\* on-hand row: the product is still there, without a material type.
C21_Witness ==
  /\ Deleted("delete material type") /\ req.id = 1
  /\ 1 \in DOMAIN pre.products /\ pre.products[1].material_type_id = 1
  /\ << 1, 1 >> \in DOMAIN db.on_hand
  /\ 1 \in DOMAIN db.products /\ db.products[1].material_type_id = NULL

\* The location 1 was deleted while product 1 had an on-hand row and an
\* assignment at it, which are gone.
C21_WitnessLocation ==
  /\ Deleted("delete location") /\ req.id = 1
  /\ << 1, 1 >> \in DOMAIN pre.on_hand /\ << 1, 1 >> \in pre.product_locations
  /\ db.on_hand = <<>> /\ db.product_locations = {}
  /\ 1 \in DOMAIN db.products

\* ------------------------------------------------------ the reorder report

\* The rows GET /api/reorder answers with.  The query, the mapping, the
\* filter and Array.prototype.sort read nothing but the store, so the answer
\* is a function of it: of the orders the comparator allows, always the
\* same one.
ReportOf(d) == CHOOSE s \in SortedRows({r \in RowsAll(d) : NeedsOrdering(r)}) : TRUE

\* A report that empties the on_hand table it has summed up.
ReorderRunResetting(d) ==
  [db |-> [d EXCEPT !.on_hand = <<>>], resp |-> [status |-> 200, rows |-> ReportOf(d)]]

\* GET /api/reorder: a SELECT and a computation on its result.
ReorderRun(d) == [db |-> d, resp |-> [status |-> 200, rows |-> ReportOf(d)]]

\* A caller asks for the report.
Reorder == Edit("report", None, ReorderRun(db))

\* The caller, having the answer, asks for the report once more; previous is
\* the answer it has.
ReorderAgain ==
  /\ pc = "responded"
  /\ lastOp \in {"report", "report again"}
  /\ db' = ReorderRun(db).db
  /\ resp' = ReorderRun(db).resp
  /\ pc' = "responded"
  /\ lastOp' = "report again"
  /\ req' = [previous |-> resp]
  /\ pre' = db
  /\ view' = None

\* Rows for two SKUs, named B and b, at the locations A and B, with a PAR of
\* 5.5 or none and an on-hand count that is absent, negative or positive.
ReportRows ==
  { Row(n[1], n[2], "", "", par, location, on_hand) :
      n \in { << "S1", "B" >>, << "S2", "b" >> },
      par \in {Undefined, Num(554)},
      location \in {"A", "B"},
      on_hand \in {Undefined, Num(-43), Num(196)} }

NextReport ==
  \/ \E rows \in [1..1 -> ReportRows] : Import(rows, "update")
  \/ Reorder
  \/ ReorderAgain
  \/ Return

SpecReport == Init /\ [][NextReport]_vars

QtyAt(d, pid, lid) == IF << pid, lid >> \in DOMAIN d.on_hand THEN d.on_hand[<< pid, lid >>] ELSE 0

\* The stored quantities of a product added up over the locations 1 and 2,
\* which are all the locations there are under SpecReport.
SumOverLocations(d, pid) == QtyAt(d, pid, 1) + QtyAt(d, pid, 2)

\* C23: the total on-hand the report gives for a product is the sum of the
\* product's stored on-hand quantities over all locations, 0 for a product
\* without an on-hand row; a product with a PAR > 0 and no on-hand row is in
\* the report with to_order = ceil(PAR).
C23_TotalOnHandIsSumOverLocations ==
  lastOp \in {"report", "report again"} =>
    /\ DOMAIN db.locations \subseteq 1..2
    /\ \A i \in DOMAIN resp.rows :
         resp.rows[i].total_on_hand = SumOverLocations(db, resp.rows[i].product_id)
    /\ \A pid \in DOMAIN db.products :
         (db.products[pid].par > 0 /\ \A key \in DOMAIN db.on_hand : key[1] # pid) =>
           \E i \in DOMAIN resp.rows :
              /\ resp.rows[i].product_id = pid
              /\ resp.rows[i].total_on_hand = 0
              /\ resp.rows[i].to_order = SmallestWholeAtLeast(db.products[pid].par)

\* The same when no stored on-hand quantity is negative.
C23_HoldsForQuantitiesFromZero ==
  (\A key \in DOMAIN db.on_hand : db.on_hand[key] >= 0) => C23_TotalOnHandIsSumOverLocations

\* A report for a product with on-hand rows at two locations and one for a
\* product with a PAR and no on-hand row.
C23_Reached ==
  /\ lastOp = "report"
  /\ \E i \in DOMAIN resp.rows :
        /\ resp.rows[i].par = 55 /\ resp.rows[i].total_on_hand = 40
        /\ {<< resp.rows[i].product_id, 1 >>, << resp.rows[i].product_id, 2 >>}
             \subseteq DOMAIN db.on_hand
  /\ \E i \in DOMAIN resp.rows :
        /\ resp.rows[i].total_on_hand = 0 /\ resp.rows[i].to_order = 6
        /\ \A key \in DOMAIN db.on_hand : key[1] # resp.rows[i].product_id

\* ------------------------------------------- direct edits of one product

\* The body of the request has a name, a SKU and a location.
BodyComplete ==
  /\ Trim(req.body.name) # "" /\ Trim(req.body.sku) # ""
  /\ req.body.location_ids # <<>>

\* The products, as they were when the request came, that have the SKU of
\* the request's body.
WithSkuOfBody == ProductsWithSku(pre, Trim(req.body.sku))

\* The request is a product create or update with a complete body whose SKU
\* is the SKU of another product.
SkuCollides ==
  \/ lastOp = "create product" /\ BodyComplete /\ WithSkuOfBody # {}
  \/ /\ lastOp = "update product" /\ BodyComplete
     /\ req.id \in DOMAIN pre.products
     /\ WithSkuOfBody \ {req.id} # {}

\* C24: a product create or update whose SKU is the one of another product
\* is answered with the error "That SKU already exists" and leaves the
\* products and the assignments as they were.
C24_SkuCollisionReportedAndNothingChanged ==
  SkuCollides =>
    /\ resp.status = 400
    /\ resp.error = "That SKU already exists."
    /\ db.products = pre.products
    /\ db.product_locations = pre.product_locations

\* A colliding create or update is answered with some error and changes
\* nothing.
C24_CollisionRefused ==
  SkuCollides => (resp.status = 400 /\ db = pre)

\* A colliding update was made: product 2 was to get the SKU of product 1.
C24_Reached ==
  /\ SkuCollides /\ lastOp = "update product" /\ req.id = 2
  /\ ProductsWithSku(pre, "S1") = {1} /\ Trim(req.body.sku) = "S1"

\* --------------------------------------------------- an import, then a report

\* The row of the example: 5.5 of Widget wanted, 2 on hand at Main.
WidgetRow == Row("S1", "Widget", "Hardware", "", Num(550), "Main", Num(200))

\* Rows like it, with and without the material type, the PAR, the location
\* and the on-hand count, and a row for another product.
WidgetRows ==
  { Row("S1", "Widget", material_type, "", par, location, on_hand) :
      material_type \in {"", "Hardware"},
      par \in {Undefined, Num(550)},
      location \in {"", "Main"},
      on_hand \in {Undefined, Num(200)} }
  \cup { Row("S2", "a", "", "", Num(550), "", Undefined) }

NextWidget ==
  \/ \E rows \in [1..1 -> WidgetRows] : Import(rows, "update")
  \/ Reorder
  \/ Return

SpecWidget == Init /\ [][NextWidget]_vars

\* The store has one location "Main", one material type "Hardware", one
\* product S1 of that type with PAR 5.5 and 2.0 of it on hand at Main.
HasTheWidget(d) ==
  /\ d.locations = << "Main" >>
  /\ d.material_types = << "Hardware" >>
  /\ DOMAIN d.products = {1}
  /\ d.products[1].sku = "S1" /\ d.products[1].name = "Widget"
  /\ d.products[1].material_type_id = 1
  /\ d.products[1].par = 55
  /\ d.on_hand = (<< 1, 1 >> :> 20)

\* The rows are one row, for S1, with to_order rows.
OrdersOfS1(rows, to_order) ==
  Len(rows) = 1 /\ rows[1].sku = "S1" /\ rows[1].to_order = to_order

\* The import of the example: WidgetRow alone into the empty store.
WidgetImported == lastOp = "import" /\ pre = EmptyDb /\ req.rows = << WidgetRow >>

\* C25: importing the row {S1, Widget, Hardware, 5.5, Main, 2} into an empty
\* catalog creates the location "Main", the material type "Hardware" and one
\* product with PAR 5.5, stores 2.0 on hand for (S1, Main) and reports one
\* on-hand upsert; the reorder report of the store it leaves lists S1 with
\* to_order 4.
C25_WidgetImportThenReport ==
  /\ WidgetImported =>
       /\ resp.status = 200
       /\ HasTheWidget(db)
       /\ resp.on_hand_upserts = 1
       /\ OrdersOfS1(ReportOf(db), 4)
  /\ (lastOp = "report" /\ HasTheWidget(pre)) => OrdersOfS1(resp.rows, 4)

\* The import of the example was made.
C25_Witness ==
  /\ WidgetImported
  /\ HasTheWidget(db)
  /\ resp.on_hand_upserts = 1

\* The report was asked for after it.
C25_WitnessReport ==
  /\ lastOp = "report" /\ HasTheWidget(pre)
  /\ OrdersOfS1(resp.rows, 4)

\* The locations the body lists are locations of the store.
LocationsOfBodyExist == Range(req.body.location_ids) \subseteq DOMAIN pre.locations

\* A create with a complete body, a SKU no product has and locations that
\* exist.
ValidCreate ==
  lastOp = "create product" /\ BodyComplete /\ WithSkuOfBody = {} /\ LocationsOfBodyExist

\* An update of a product there is, with a complete body, a SKU no other
\* product has and locations that exist.
ValidUpdate ==
  /\ lastOp = "update product" /\ BodyComplete /\ LocationsOfBodyExist
  /\ req.id \in DOMAIN pre.products
  /\ WithSkuOfBody \ {req.id} = {}

\* The product pid of the store has the fields of the request's body.
StoredAsGiven(pid) ==
  /\ db.products[pid].name = Trim(req.body.name)
  /\ db.products[pid].sku = Trim(req.body.sku)
  /\ db.products[pid].material_type_id = req.body.material_type_id
  /\ db.products[pid].vendor_id = req.body.vendor_id
  /\ db.products[pid].par = ClampedRound1(req.body.par)
  /\ {pl[2] : pl \in {x \in db.product_locations : x[1] = pid}} = Range(req.body.location_ids)

\* C26: a valid product create succeeds and stores one new product with the
\* given name, SKU, material type, vendor and PAR, assigned to exactly the
\* given locations; a valid update succeeds and stores the given fields,
\* the vendor among them.
C26_ValidCreateAndUpdateStored ==
  /\ ValidCreate =>
       /\ resp.status = 200
       /\ \E pid \in DOMAIN db.products \ DOMAIN pre.products :
             /\ DOMAIN db.products = DOMAIN pre.products \cup {pid}
             /\ StoredAsGiven(pid)
  /\ ValidUpdate =>
       /\ resp.status = 200
       /\ StoredAsGiven(req.id)

\* Valid creates and updates are made.
C26_Reached ==
  \/ ValidCreate /\ req.body.sku = "S1" /\ ProductsWithSku(pre, "s1") # {}
  \/ ValidUpdate /\ req.id = 1

\* No create or update of a product ever succeeds.
C26_NoProductEditSucceeds ==
  lastOp \in {"create product", "update product"} => (resp.status = 400 /\ db = pre)

\* ------------------------------------------------------ an import run twice

\* The caller sends the batch it has just imported once more.
ImportAgain ==
  /\ pc = "responded"
  /\ lastOp \in {"import", "import again"}
  /\ "failing" \notin DOMAIN req
  /\ resp.status = 200
  /\ db' = ImportRun(db, req.rows).db
  /\ resp' = ImportRun(db, req.rows).resp
  /\ pc' = "responded"
  /\ lastOp' = "import again"
  /\ pre' = db
  /\ UNCHANGED << req, view >>

\* Rows for one SKU, with one name and no on-hand count or another name, a
\* material type and a count, at no location or at A or B, and two rows for
\* another SKU.
AgainRows ==
  { Row("S1", f[1], f[2], "", Num(554), location, f[3]) :
      f \in { << "N1", "", Undefined >>, << " N2 ", " M ", Num(196) >> },
      location \in {"", "A", "B"} }
  \cup { Row("S2", "N1", "", "", Num(554), location, Num(43)) : location \in {"", "B"} }

NextAgain ==
  \/ \E rows \in Batches(AgainRows) : Import(rows, "update")
  \/ ImportAgain
  \/ Return

SpecAgain == Init /\ [][NextAgain]_vars

\* The rows of the tables of a store.
TablesOf(d) ==
  << d.locations, d.material_types, d.vendors, d.products, d.product_locations, d.on_hand >>

\* C27: a batch imported again right after its import succeeded, with no
\* write in between, leaves the products, the reference tables, the
\* assignments and the on-hand quantities as the first run left them.
C27_ImportTwiceIsImportOnce ==
  lastOp = "import again" => (resp.status = 200 /\ TablesOf(db) = TablesOf(pre))

\* A batch of two rows for one SKU that differ in name and count was run
\* again on the store its first run had changed.
C27_Witness ==
  /\ lastOp = "import again"
  /\ Len(req.rows) = 2
  /\ req.rows[1].sku = req.rows[2].sku
  /\ req.rows[1].name # req.rows[2].name
  /\ req.rows[1].location = "A" /\ req.rows[2].location = ""
  /\ db.on_hand # <<>>
  /\ resp.rows_imported = 2
  /\ TablesOf(db) = TablesOf(pre)

\* ------------------------------------------------ two imports at a time

\* Two calls of POST /api/import are under way at once.  Every await of the
\* handler is a point where the other call may run, so each call is a
\* sequence of steps, one per statement or batch it awaits.  Here pc, req,
\* resp and pre are functions of the call: its position, its body, its
\* response and its locals (existing and locNames).
Calls == 1..2

\* Rows that name no location, material type or vendor.
RaceRows ==
  { Row(sku, name, "", "", Undefined, "", Undefined) :
      sku \in {"S1", "S2"}, name \in {"N1", " N2 "} }

InitRace ==
  /\ db = EmptyDb
  /\ pc = [p \in Calls |-> "start"]
  /\ lastOp = "import"
  /\ req \in [Calls -> [rows : [1..1 -> RaceRows], dedup_mode : {"update"}]]
  /\ resp = [p \in Calls |-> None]
  /\ pre = [p \in Calls |-> None]
  /\ view = None

\* The step of a call from one position to the next.
Step(p, from, to) ==
  /\ pc[p] = from
  /\ pc' = [pc EXCEPT ![p] = to]
  /\ UNCHANGED << lastOp, req, view >>

\* SELECT id, name FROM locations ORDER BY id LIMIT 1, which the call makes
\* as its rows name no location.
SelectFirstLocation(p) ==
  /\ Step(p, "start", "selected")
  /\ pre' = [pre EXCEPT ![p] =
               [ existing |-> IF DOMAIN db.locations = {} THEN NoName
                              ELSE db.locations[FirstLocation(db)] ]]
  /\ UNCHANGED << db, resp >>

\* There was a location: its name is the default.
UseExisting(p) ==
  /\ Step(p, "selected", "defaulted")
  /\ pre[p].existing # NoName
  /\ pre' = [pre EXCEPT ![p] = [locNames |-> << pre[p].existing >>]]
  /\ UNCHANGED << db, resp >>

\* There was none: INSERT INTO locations (name) VALUES ('Main').
InsertMain(p) ==
  /\ Step(p, "selected", "defaulted")
  /\ pre[p].existing = NoName
  /\ "Main" \notin Range(db.locations)
  /\ db' = InsertRow(db, "locations", "Main")
  /\ pre' = [pre EXCEPT ![p] = [locNames |-> << "Main" >>]]
  /\ UNCHANGED resp

\* The same INSERT when the name is taken by now: UNIQUE (name) fails, the
\* statement throws and the catch of onRequest answers with status 500.
InsertMainFails(p) ==
  /\ Step(p, "selected", "responded")
  /\ pre[p].existing = NoName
  /\ "Main" \in Range(db.locations)
  /\ resp' = [resp EXCEPT ![p] = Err(500, "D1_ERROR: UNIQUE constraint failed: locations.name")]
  /\ UNCHANGED << db, pre >>

\* await env.DB.batch of the INSERT OR IGNOREs of locNames.
LocationsBatch(p) ==
  /\ Step(p, "defaulted", "references")
  /\ db' = InsertOrIgnoreNames(db, "locations", pre[p].locNames)
  /\ UNCHANGED << resp, pre >>

\* await env.DB.batch(productStmts)
ProductsBatch(p) ==
  /\ Step(p, "references", "products")
  /\ db' = ProductBatch(db, NormRows(req[p].rows))
  /\ UNCHANGED << resp, pre >>

\* await env.DB.batch(plStmts), after which the call, having no on_hand
\* to write, answers.
AssignmentsBatch(p) ==
  /\ Step(p, "products", "responded")
  /\ db' = RunStatements(db, AssignmentPairs(db, NormRows(req[p].rows), pre[p].locNames),
                         InsertOrIgnoreAssignment)
  /\ resp' = [resp EXCEPT ![p] =
                [ status |-> 200, ok |-> TRUE,
                  rows_received |-> Len(req[p].rows),
                  rows_imported |-> Len(NormRows(req[p].rows)),
                  locations_seen |-> Len(pre[p].locNames),
                  material_types_seen |-> 0, vendors_seen |-> 0, on_hand_upserts |-> 0 ]]
  /\ UNCHANGED pre

NextRace ==
  \E p \in Calls :
    \/ SelectFirstLocation(p)
    \/ UseExisting(p)
    \/ InsertMain(p)
    \/ InsertMainFails(p)
    \/ LocationsBatch(p)
    \/ ProductsBatch(p)
    \/ AssignmentsBatch(p)

SpecRace == InitRace /\ [][NextRace]_vars

BothResponded == \A p \in Calls : pc[p] = "responded"

\* C28: however two imports whose rows name no location, both begun with no
\* location in the catalog, are interleaved, both succeed and there is
\* exactly one location "Main" afterwards.
C28_BothImportsSucceedWithOneMain ==
  BothResponded =>
    /\ \A p \in Calls : resp[p].status = 200
    /\ Cardinality(IdsOfName(db.locations, "Main")) = 1

\* There is exactly one "Main" afterwards, and a call that succeeded has its
\* product stored and assigned to it.
C28_OneMainAndSucceededCallsStored ==
  BothResponded =>
    /\ Cardinality(IdsOfName(db.locations, "Main")) = 1
    /\ \A p \in Calls :
         resp[p].status = 200 =>
           \E pid \in ProductsWithSku(db, Trim(req[p].rows[1].sku)) :
              << pid, IdOfName(db.locations, "Main") >> \in db.product_locations

\* Both calls succeeded, one having found the "Main" of the other.
C28_ReachedInTurn ==
  BothResponded /\ \A p \in Calls : resp[p].status = 200

\* ------------------------------------- on-hand rows an import writes

\* The pairs of the plStmts of the import that has just been made.
AssignedByImport == Range(ImportSteps(pre, NormRows(req.rows)).plStmts)

\* C29: every (product, location) pair whose on-hand an import writes is a
\* pair the same import inserts as an assignment, so that after the import
\* the on-hand rows it wrote have their assignment.
C29_ImportAssignsThePairsItCounts ==
  (lastOp = "import" /\ resp.status = 200) =>
    \A key \in DOMAIN db.on_hand :
       RowsSetting(key) # {} => (key \in AssignedByImport /\ key \in db.product_locations)

\* An import wrote the on-hand of a pair that had an on-hand row and, its
\* assignment having been taken away, no assignment; it has one now.
C29_Witness ==
  /\ lastOp = "import" /\ resp.status = 200
  /\ \E key \in DOMAIN pre.on_hand :
        /\ key \notin pre.product_locations
        /\ RowsSetting(key) # {}
        /\ db.on_hand[key] # pre.on_hand[key]
        /\ key \in db.product_locations

\* ------------------------------------------------- sending the order e-mail

\* The mail worker (POST /api/orders/send).  Under SpecSend db holds the
\* tables the handler reads and writes (settings, the PAR levels joined with
\* their on-hand, order_runs, order_lines) and, as bindings, the environment
\* of the worker; req holds the request and what became of the call to the
\* mail service.

\* Most order runs the model records.
MaxRuns == 2

\* splitEmails on the strings the model uses: the parts between commas,
\* trimmed, the empty ones dropped.
splitEmails(s) ==
  CASE s = ""                   -> <<>>
    [] s = " , "                -> <<>>
    [] s = "to@x.org"           -> << "to@x.org" >>
    [] s = "cc@x.org, c2@x.org" -> << "cc@x.org", "c2@x.org" >>
    [] OTHER                    -> << s >>

\* buildReorder: the lines with an order quantity > 0, grouped by material
\* type, the groups and the lines of each in the order of their names.
buildReorder(d) ==
  LET LineOf(r) == [ materialType |-> r.materialType, product |-> r.product, sku |-> r.sku,
                     qty |-> calcOrderQtyUnits(r.parTenths, r.onHandTenths) ]
      lines     == SelectSeq(MapSeq(d.levels, LineOf), LAMBDA l : l.qty > 0)
      types     == StableSort(Distinct(MapSeq(lines, LAMBDA l : l.materialType)), localeCompare)
      LinesOf(t) == StableSort(SelectSeq(lines, LAMBDA l : l.materialType = t),
                               LAMBDA a, b : localeCompare(a.product, b.product))
  IN  [sections |-> [i \in DOMAIN types |->
                       [materialType |-> types[i], lines |-> LinesOf(types[i])]]]

\* The number of lines of the sections.
RECURSIVE CountLines(_)
CountLines(sections) ==
  IF sections = <<>> THEN 0
  ELSE Len(Head(sections).lines) + CountLines(Tail(sections))

\* The stores a request may find: default recipients or none, a from
\* address in the settings, in the environment or nowhere, an API key or
\* none, two PAR levels of which none, one or both are short.
SendStores ==
  { [ settings    |-> [default_to_emails |-> to, default_cc_emails |-> cc, from_email |-> from],
      bindings    |-> [SENDGRID_API_KEY |-> key, DEFAULT_FROM_EMAIL |-> dflt],
      levels      |-> << [ materialType |-> "ink", product |-> "b", sku |-> "S1",
                           parTenths |-> par1, onHandTenths |-> 10 ],
                         [ materialType |-> "hardware", product |-> "a", sku |-> "S2",
                           parTenths |-> par2, onHandTenths |-> 10 ] >>,
      order_runs  |-> <<>>,
      order_lines |-> <<>> ] :
      to \in {"", " , ", "to@x.org"}, cc \in {"", "cc@x.org, c2@x.org"},
      from \in {"", "from@x.org"}, key \in {"", "key"}, dflt \in {"", "from@x.org"},
      par1 \in {10, 25}, par2 \in {10, 12} }

InitSend ==
  /\ db \in SendStores
  /\ pc = "idle"
  /\ lastOp = "none"
  /\ req = None
  /\ resp = None
  /\ pre = None
  /\ view = None

\* The request ends with the response r.
Responds(r) ==
  /\ resp' = r
  /\ pc' = "responded"
  /\ UNCHANGED << lastOp, pre, view >>

\* UPDATE order_runs SET status = ? WHERE id = ?
SetStatus(d, id, status) == [d EXCEPT !.order_runs[id].status = status]

\* The request is refused before anything is recorded: there is no default
\* recipient, or there is nothing to order.
SendRefused ==
  /\ pc = "idle"
  /\ \/ splitEmails(db.settings.default_to_emails) = <<>>
     \/ buildReorder(db).sections = <<>>
  /\ resp' = [ status |-> 400, ok |-> FALSE,
               message |-> IF splitEmails(db.settings.default_to_emails) = <<>>
                           THEN "No default TO emails set in Settings."
                           ELSE "Nothing to order." ]
  /\ pc' = "responded"
  /\ lastOp' = "send"
  /\ req' = [orderRunId |-> NULL, mail |-> "not called"]
  /\ pre' = db
  /\ UNCHANGED << db, view >>

\* The order run is inserted with status 'draft', and then its lines.
RecordRun ==
  /\ pc = "idle"
  /\ Len(db.order_runs) < MaxRuns
  /\ splitEmails(db.settings.default_to_emails) # <<>>
  /\ buildReorder(db).sections # <<>>
  /\ LET orderRunId == Len(db.order_runs) + 1
         run == [ to_emails |-> splitEmails(db.settings.default_to_emails),
                  cc_emails |-> splitEmails(db.settings.default_cc_emails),
                  status    |-> "draft",
                  lines     |-> CountLines(buildReorder(db).sections) ]
     IN  /\ db' = [db EXCEPT !.order_runs = Append(@, run),
                             !.order_lines = @ \o [i \in 1..run.lines |-> orderRunId]]
         /\ req' = [orderRunId |-> orderRunId, mail |-> "not called"]
  /\ pc' = "recorded"
  /\ lastOp' = "send"
  /\ pre' = db
  /\ UNCHANGED << resp, view >>

\* The from address of the mail: settings.from_email || DEFAULT_FROM_EMAIL.
FromEmail(d) == OrElse(d.settings.from_email, d.bindings.DEFAULT_FROM_EMAIL)

\* The mail can be handed to the service: there is an API key and a from
\* address.
CanSend(d) == d.bindings.SENDGRID_API_KEY # "" /\ FromEmail(d) # ""

\* Without an API key or a from address the run is marked 'failed'.
SendNotConfigured ==
  /\ pc = "recorded"
  /\ ~CanSend(db)
  /\ db' = SetStatus(db, req.orderRunId, "failed")
  /\ req' = req
  /\ Responds([ status |-> 500, ok |-> FALSE,
                message |-> IF db.bindings.SENDGRID_API_KEY = ""
                            THEN "Missing SENDGRID_API_KEY."
                            ELSE "Missing From email." ])

\* fetch resolves with sgRes.ok: the run is marked 'sent'.
MailAccepted ==
  /\ pc = "recorded"
  /\ CanSend(db)
  /\ db' = SetStatus(db, req.orderRunId, "sent")
  /\ req' = [req EXCEPT !.mail = "accepted"]
  /\ Responds([status |-> 200, ok |-> TRUE, message |-> "Sent"])

\* fetch resolves with a status that is not ok: the run is marked 'failed'.
MailRefused ==
  /\ pc = "recorded"
  /\ CanSend(db)
  /\ db' = SetStatus(db, req.orderRunId, "failed")
  /\ req' = [req EXCEPT !.mail = "refused"]
  /\ Responds([status |-> 500, ok |-> FALSE, message |-> "SendGrid error"])

\* fetch rejects (the service cannot be reached): the handler has no try
\* around it, the exception leaves it and the framework answers 500; no
\* UPDATE of the run is made.
MailFetchThrows ==
  /\ pc = "recorded"
  /\ CanSend(db)
  /\ db' = db
  /\ req' = [req EXCEPT !.mail = "threw"]
  /\ Responds([status |-> 500, ok |-> FALSE, message |-> "Internal Server Error"])

NextSend ==
  \/ SendRefused
  \/ RecordRun
  \/ SendNotConfigured
  \/ MailAccepted
  \/ MailRefused
  \/ MailFetchThrows
  \/ Return

SpecSend == InitSend /\ [][NextSend]_vars

\* The order runs the request has recorded.
RunsRecorded == (DOMAIN db.order_runs) \ (DOMAIN pre.order_runs)

SendEnded == lastOp = "send" /\ pc = "responded"

\* C30: when a send request ends, every order run it has recorded has a
\* status other than 'draft': 'sent' exactly when the mail service accepted
\* the message and 'failed' otherwise; with nothing to order or no default
\* recipient the request has recorded no order run.
C30_RecordedRunsLeaveDraft ==
  SendEnded =>
    /\ \A id \in RunsRecorded :
         /\ db.order_runs[id].status # "draft"
         /\ db.order_runs[id].status = "sent" <=> req.mail = "accepted"
         /\ db.order_runs[id].status = "failed" <=> req.mail # "accepted"
    /\ ( \/ splitEmails(pre.settings.default_to_emails) = <<>>
         \/ buildReorder(pre).sections = <<>> ) => RunsRecorded = {}

\* The same for the requests whose call of the mail service did not throw.
C30_HoldsUnlessFetchThrows ==
  (SendEnded /\ req.mail # "threw") => C30_RecordedRunsLeaveDraft

\* Requests ended with a run sent, with a run failed and with none recorded.
C30_ReachedSent == SendEnded /\ RunsRecorded # {} /\ req.mail = "accepted"

C30_ReachedDraft ==
  /\ SendEnded /\ req.mail = "threw"
  /\ \E id \in RunsRecorded : db.order_runs[id].status = "draft"

====
